---- MODULE Spec2Model ----
(***************************************************************************)
(* State-machine model of the stock ledger (inventory_service.py), the     *)
(* distributed lock (redis_lock.py), the checkout coordinator              *)
(* (order_service.py) and the flash-sale admission / materialization       *)
(* pipeline (seckill_service.py, seckill_tasks.py).                        *)
(***************************************************************************)
EXTENDS Integers, Sequences, FiniteSets, TLC

(***************************************************************************)
(* Bounds of the model.                                                    *)
(***************************************************************************)
MaxQty == 2
MaxLog == 4

Skus == {1, 2}
Warehouses == {1, 2}
Items == Skus \X Warehouses
\* warehouse_id=None of the ledger calls
NoWarehouse == 0
\* order numbers used as reference ids: "SN.." by checkout, "SKSN.." by the materializer
\* (order numbers are uuid-based; here a kind, the creating process and its attempt)
SN(p) == <<"SN", p, 0>>
SKSN(r, n) == <<"SKSN", r, n>>
NoRef == <<"none", 0, 0>>
LedgerRefs == {SN(1), SKSN(1, 0)}
ReserveTypeOf(ref) == IF ref[1] = "SN" THEN "order_creation" ELSE "seckill_order_creation"

VARIABLES
    inv,        \* InventoryItem rows: (sku, warehouse) -> [exists, quantity, reserved]
    txlog,      \* InventoryTransaction rows, in insertion order
    alerts,     \* the messages published to the queue low_stock_alerts, in order
    lockKey,    \* fast store: value of the key lock:inventory:sku:<id>, or NoToken
    lapsed,     \* history: tokens whose key was removed by TTL expiry
    xfer,       \* per SKU: whether a stock transfer holds the SKU's lock
    ck,         \* the checkout requests (create_order_from_cart), one record each
    orders,     \* Order rows
    cart,       \* CartItem rows of the user of each checkout request
    resp,       \* what the last cancellation, payment notification or sweep returned
    stock,      \* fast store: seckill:stock:<offer>
    purchased,  \* fast store: seckill:purchase:user:<u>:activity:<a>, field <offer>
    attempts,   \* history: the admission attempts made, with the script's result
    job,        \* the materialization jobs, one per admitted request
    reqStatus,  \* fast store: seckill:request:<request_id> status blob
    activity,   \* the SeckillActivity row: status, start_time, end_time
    preload,    \* fast store: whether the activity's keys are loaded, and where a
                \* running load_activity_to_redis is
    clock,      \* the time now
    promotions, \* Promotion rows, by id
    selected,   \* what the last call of the promotion selector was given and returned
    adjusting   \* a running adjust_stock: the row it loaded, before its UPDATE

ledgerVars == <<inv, txlog, alerts>>
lockVars == <<lockKey, lapsed, xfer>>
checkoutVars == <<ck, orders, cart, resp>>
seckillVars == <<stock, purchased, attempts, job, reqStatus>>
activityVars == <<activity, preload, clock>>
promoVars == <<promotions, selected>>
adjustVars == <<adjusting>>
vars == <<inv, txlog, alerts, lockKey, lapsed, xfer, ck, orders, cart, resp, stock, purchased, attempts, job, reqStatus,
         activity, preload, clock, promotions, selected, adjusting>>

(***************************************************************************)
(* Stock ledger: app/services/inventory_service.py                         *)
(***************************************************************************)
NoItem == [exists |-> FALSE, quantity |-> 0, reserved |-> 0]

Tx(item, type, qty, ref, rtype) ==
    [item |-> item, type |-> type, qty |-> qty, ref |-> ref, rtype |-> rtype]

RECURSIVE SumAvailable(_, _)
SumAvailable(rows, S) ==
    IF S = {} THEN 0
    ELSE LET it == CHOOSE x \in S : TRUE
         IN (rows[it].quantity - rows[it].reserved) + SumAvailable(rows, S \ {it})

\* rows of one SKU, of the given warehouse or (warehouse_id falsy) of all warehouses
RowsOf(rows, sku, wh) ==
    {it \in Items : rows[it].exists /\ it[1] = sku /\ (wh = NoWarehouse \/ it[2] = wh)}

check_stock_availability(rows, sku, quantity, wh) ==
    SumAvailable(rows, RowsOf(rows, sku, wh)) >= quantity

\* the first row of the SKU by warehouse id, whatever its available stock
FirstRow(rows, sku, quantity, wh) ==
    LET all == RowsOf(rows, sku, wh)
    IN {it \in all : \A o \in all : it[2] <= o[2]}

\* the rows reserve_stock updates: the given warehouse's row, or the first row by
\* warehouse id with enough available stock
items_to_update(rows, sku, quantity, wh) ==
    IF wh # NoWarehouse
    THEN RowsOf(rows, sku, wh)
    ELSE LET enough == {it \in RowsOf(rows, sku, NoWarehouse) :
                           rows[it].quantity - rows[it].reserved >= quantity}
         IN {it \in enough : \A o \in enough : it[2] <= o[2]}

\* result of a ledger call: ok = FALSE when it raised (the caller rolls back)
\* (alerts: the low-stock messages the call has published)
Raised(rows, log) == [ok |-> FALSE, inv |-> rows, log |-> log, alerts |-> <<>>]
Done(rows, log) == [ok |-> TRUE, inv |-> rows, log |-> log, alerts |-> <<>>]

\* InventoryItem.alert_threshold of every row
alert_threshold == 1

\* _check_alert_threshold: the row read again; quantity <= alert_threshold publishes
\* one message
check_alert_threshold(rows, it) ==
    IF rows[it].exists /\ rows[it].quantity <= alert_threshold
    THEN <<[item |-> it, quantity |-> rows[it].quantity,
            alert_threshold |-> alert_threshold,
            available_quantity |-> rows[it].quantity - rows[it].reserved]>>
    ELSE <<>>

reserve_stock(rows, log, sku, quantity, ref, rtype, wh) ==
    IF ~check_stock_availability(rows, sku, quantity, wh)
    THEN Raised(rows, log)
    ELSE LET upd == items_to_update(rows, sku, quantity, wh)
         IN IF upd = {}
            THEN Raised(rows, log)
            ELSE LET it == CHOOSE x \in upd : TRUE
                 IN Done([rows EXCEPT ![it].reserved = @ + quantity],
                         Append(log, Tx(it, "RESERVE", quantity, ref, rtype)))

\* the RESERVE transactions of a reference id with one of the given reference types
reserve_transactions(log, ref, rtypes) ==
    SelectSeq(log, LAMBDA t : t.ref = ref /\ t.rtype \in rtypes /\ t.type = "RESERVE")

\* a release that writes no RELEASE transaction
RECURSIVE ReleaseSilently(_, _, _, _, _)
ReleaseSilently(rows, log, txs, ref, newType) ==
    IF txs = <<>> THEN Done(rows, log)
    ELSE LET t == Head(txs)
         IN IF ~rows[t.item].exists
            THEN Raised(rows, log)
            ELSE ReleaseSilently([rows EXCEPT ![t.item].reserved = @ - t.qty], log,
                                 Tail(txs), ref, newType)

\* the loop of release_reserved_stock: per RESERVE transaction, the row's reserved
\* lowered by its quantity and a RELEASE transaction of that quantity; a missing row
\* raises
RECURSIVE ReleaseEach(_, _, _, _, _)
ReleaseEach(rows, log, txs, ref, newType) ==
    IF txs = <<>> THEN Done(rows, log)
    ELSE LET t == Head(txs)
         IN IF ~rows[t.item].exists
            THEN Raised(rows, log)
            ELSE ReleaseEach([rows EXCEPT ![t.item].reserved = @ - t.qty],
                             Append(log, Tx(t.item, "RELEASE", t.qty, ref, newType)),
                             Tail(txs), ref, newType)

release_reserved_stock(rows, log, ref, original_reference_types, new_reference_type) ==
    LET txs == reserve_transactions(log, ref, original_reference_types)
    IN IF txs = <<>> THEN Done(rows, log)
       ELSE ReleaseEach(rows, log, txs, ref, new_reference_type)

RECURSIVE CommitEach(_, _, _, _)
CommitEach(rows, log, txs, order_sn) ==
    IF txs = <<>> THEN Done(rows, log)
    ELSE LET t == Head(txs)
             r1 == [rows EXCEPT ![t.item].quantity = @ - t.qty,
                                ![t.item].reserved = @ - t.qty]
             rest == CommitEach(r1, Append(log, Tx(t.item, "STOCK_OUT", t.qty, order_sn,
                                                   "payment_confirmation")),
                                Tail(txs), order_sn)
         IN [rest EXCEPT !.alerts = check_alert_threshold(r1, t.item) \o @]

\* a commit that takes the quantity out and leaves reserved as it is
RECURSIVE QuantityOnlyEach(_, _, _, _)
QuantityOnlyEach(rows, log, txs, order_sn) ==
    IF txs = <<>> THEN Done(rows, log)
    ELSE LET t == Head(txs)
             r1 == [rows EXCEPT ![t.item].quantity = @ - t.qty]
             rest == QuantityOnlyEach(r1, Append(log, Tx(t.item, "STOCK_OUT", t.qty,
                                                         order_sn, "payment_confirmation")),
                                      Tail(txs), order_sn)
         IN [rest EXCEPT !.alerts = check_alert_threshold(r1, t.item) \o @]

CommitQuantityOnly(rows, log, order_sn) ==
    QuantityOnlyEach(rows, log, reserve_transactions(log, order_sn, {"order_creation"}),
                     order_sn)

\* commit_reserved_stock: for each RESERVE transaction of the order (type
\* order_creation) take its quantity off quantity and reserved and add a STOCK_OUT
commit_reserved_stock(rows, log, order_sn) ==
    LET txs == reserve_transactions(log, order_sn, {"order_creation"})
    IN IF txs = <<>> THEN Done(rows, log)
       ELSE CommitEach(rows, log, txs, order_sn)

\* _get_or_create_inventory_item: a missing row is created with 0 / 0
get_or_create(rows, it) ==
    IF rows[it].exists THEN rows
    ELSE [rows EXCEPT ![it] = [exists |-> TRUE, quantity |-> 0, reserved |-> 0]]

stock_in(rows, log, sku, wh, quantity) ==
    LET it == <<sku, wh>>
        r1 == get_or_create(rows, it)
    IN Done([r1 EXCEPT ![it].quantity = @ + quantity],
            Append(log, Tx(it, "STOCK_IN", quantity, NoRef, "purchase")))

\* an adjustment whose alert check reads the row as it was before the update
AdjustAlertOnOld(rows, log, sku, wh, new_quantity) ==
    LET it == <<sku, wh>>
        r1 == get_or_create(rows, it)
        adjustment == new_quantity - r1[it].quantity
        r2 == [r1 EXCEPT ![it].quantity = new_quantity]
    IN [Done(r2, Append(log, Tx(it, "ADJUST", adjustment, NoRef, "inventory_adjustment")))
           EXCEPT !.alerts = check_alert_threshold(r1, it)]

\* adjust_stock: the row (created 0 / 0 when missing) gets quantity = new_quantity, an
\* ADJUST transaction records new_quantity - quantity, then the alert check
adjust_stock(rows, log, sku, wh, new_quantity) ==
    LET it == <<sku, wh>>
        r1 == get_or_create(rows, it)
        adjustment == new_quantity - r1[it].quantity
        r2 == [r1 EXCEPT ![it].quantity = new_quantity]
    IN [Done(r2, Append(log, Tx(it, "ADJUST", adjustment, NoRef, "inventory_adjustment")))
           EXCEPT !.alerts = check_alert_threshold(r2, it)]

\* a transfer that checks the SKU's stock over all warehouses
TransferAnyWarehouse(rows, log, sku, from_wh, to_wh, quantity) ==
    IF ~check_stock_availability(rows, sku, quantity, NoWarehouse)
    THEN Raised(rows, log)
    ELSE LET from == <<sku, from_wh>>
             to == <<sku, to_wh>>
             r1 == get_or_create(rows, to)
             r2 == [r1 EXCEPT ![from].quantity = @ - quantity]
             r3 == [r2 EXCEPT ![to].quantity = @ + quantity]
         IN [Done(r3, log \o <<Tx(from, "TRANSFER_OUT", quantity, NoRef, "inventory_transfer"),
                               Tx(to, "TRANSFER_IN", quantity, NoRef, "inventory_transfer")>>)
                EXCEPT !.alerts = check_alert_threshold(r3, from)]

\* the body of transfer_stock once the per-SKU lock is held: the source warehouse's
\* available stock is checked, the target row is created 0 / 0 when missing, the
\* quantity moves, a TRANSFER_OUT and a TRANSFER_IN are added, the source row's alert
\* threshold is checked
transfer_stock(rows, log, sku, from_wh, to_wh, quantity) ==
    IF ~check_stock_availability(rows, sku, quantity, from_wh)
    THEN Raised(rows, log)
    ELSE LET from == <<sku, from_wh>>
             to == <<sku, to_wh>>
             r1 == get_or_create(rows, to)
             r2 == [r1 EXCEPT ![from].quantity = @ - quantity]
             r3 == [r2 EXCEPT ![to].quantity = @ + quantity]
         IN [Done(r3, log \o <<Tx(from, "TRANSFER_OUT", quantity, NoRef, "inventory_transfer"),
                               Tx(to, "TRANSFER_IN", quantity, NoRef, "inventory_transfer")>>)
                EXCEPT !.alerts = check_alert_threshold(r3, from)]

(***************************************************************************)
(* Ledger operations as committed units (the service call and the commit   *)
(* or rollback of the transaction around it).                              *)
(***************************************************************************)
LedgerSkus == {1}
ReleaseTypeSets == {{"order_creation"}, {"order_creation", "seckill_order_creation"}}

Apply(res) ==
    /\ IF res.ok /\ Len(res.log) <= MaxLog
       THEN inv' = res.inv /\ txlog' = res.log /\ alerts' = alerts \o res.alerts
       ELSE UNCHANGED ledgerVars
    /\ UNCHANGED <<lockVars, checkoutVars, seckillVars, activityVars, promoVars, adjustVars>>

LedgerStockIn(sku, wh, q) ==
    /\ inv[<<sku, wh>>].quantity + q <= MaxQty
    /\ Apply(stock_in(inv, txlog, sku, wh, q))

LedgerReserve(sku, q, ref, wh) ==
    Apply(reserve_stock(inv, txlog, sku, q, ref, ReserveTypeOf(ref), wh))

LedgerRelease(ref, rtypes) ==
    Apply(release_reserved_stock(inv, txlog, ref, rtypes, "order_cancellation"))

LedgerCommit(ref) ==
    Apply(commit_reserved_stock(inv, txlog, ref))

LedgerAdjust(sku, wh, new_quantity) ==
    Apply(adjust_stock(inv, txlog, sku, wh, new_quantity))

LedgerTransfer(sku, from_wh, to_wh, q) ==
    /\ inv[<<sku, from_wh>>].exists
    /\ inv[<<sku, to_wh>>].quantity + q <= MaxQty
    /\ Apply(transfer_stock(inv, txlog, sku, from_wh, to_wh, q))

LedgerNext ==
    \/ \E sku \in LedgerSkus, wh \in Warehouses, q \in 1..2 : LedgerStockIn(sku, wh, q)
    \/ \E sku \in LedgerSkus, q \in 1..2, ref \in LedgerRefs, wh \in Warehouses \cup {NoWarehouse} :
          LedgerReserve(sku, q, ref, wh)
    \/ \E ref \in LedgerRefs, ts \in ReleaseTypeSets : LedgerRelease(ref, ts)
    \/ \E ref \in LedgerRefs : LedgerCommit(ref)
    \/ \E sku \in LedgerSkus, wh \in Warehouses, n \in 0..MaxQty : LedgerAdjust(sku, wh, n)
    \/ \E sku \in LedgerSkus, f \in Warehouses, t \in Warehouses, q \in 1..2 :
          LedgerTransfer(sku, f, t, q)

(***************************************************************************)
(* Distributed lock: app/utils/redis_lock.py                               *)
(***************************************************************************)
\* RedisLock.acquire(retry_times=3): the SET NX is tried retry_times + 1 times
retry_times == 3

\* lock_value: a uuid4 per RedisLock object; here the owner and the lock it asks for
Token(kind, owner, k) == <<kind, owner, k>>
NoToken == <<"none", 0, 0>>

\* a SET without NX: the key is overwritten
SetWithoutNx(keys, name, token) ==
    [ok |-> TRUE, keys |-> [keys EXCEPT ![name] = token]]

\* redis.set(lock_name, lock_value, nx=True, ex=expire_seconds)
set_nx(keys, name, token) ==
    IF keys[name] = NoToken
    THEN [ok |-> TRUE, keys |-> [keys EXCEPT ![name] = token]]
    ELSE [ok |-> FALSE, keys |-> keys]

\* a release that deletes the key whatever value it holds
ReleaseByAnyone(keys, name, token) ==
    IF keys[name] # NoToken
    THEN [ok |-> TRUE, keys |-> [keys EXCEPT ![name] = NoToken]]
    ELSE [ok |-> FALSE, keys |-> keys]

\* the Lua script of RedisLock.release: delete the key only if it holds lock_value
release_script(keys, name, token) ==
    IF keys[name] = token
    THEN [ok |-> TRUE, keys |-> [keys EXCEPT ![name] = NoToken]]
    ELSE [ok |-> FALSE, keys |-> keys]

\* the key's expiry (ex=expire_seconds) fires: the key is gone whoever holds it
LockExpire(name) ==
    /\ lockKey[name] # NoToken
    /\ lockKey' = [lockKey EXCEPT ![name] = NoToken]
    /\ lapsed' = lapsed \cup {lockKey[name]}
    /\ UNCHANGED <<xfer, ledgerVars, checkoutVars, seckillVars, activityVars, promoVars, adjustVars>>

(***************************************************************************)
(* Checkout: OrderService.create_order_from_cart, app/services/            *)
(* order_service.py.  One record per checkout request:                     *)
(*   pc      where the request is                                          *)
(*   items   the cart lines it loaded (cart.items)                         *)
(*   idx, i  the lock it is acquiring (position in the sorted lines) and   *)
(*           the try of RedisLock.acquire it is at                         *)
(*   locks   the lock objects appended to `locks` (by SKU)                 *)
(*   locked  the lock objects whose _locked flag is set                    *)
(*   rel     the next entry of `locks` the finally block releases          *)
(*   relFalse the lock objects whose release() returned False              *)
(***************************************************************************)
Procs == {1, 2}
Line(sku, qty) == [sku |-> sku, qty |-> qty]
\* the carts: lines of distinct SKUs, in any row order
Carts ==
    {<<>>} \cup {<<Line(s, 1)>> : s \in Skus}
          \cup {<<Line(x[1], 1), Line(x[2], 1)>> : x \in {y \in Skus \X Skus : y[1] # y[2]}}

RECURSIVE InsertBySku(_, _)
InsertBySku(l, sorted) ==
    IF sorted = <<>> THEN <<l>>
    ELSE IF l.sku < Head(sorted).sku THEN <<l>> \o sorted
         ELSE <<Head(sorted)>> \o InsertBySku(l, Tail(sorted))

RECURSIVE SortBySku(_)
SortBySku(lines) ==
    IF lines = <<>> THEN <<>>
    ELSE InsertBySku(lines[Len(lines)], SortBySku(SubSeq(lines, 1, Len(lines) - 1)))

\* the lines in cart order
Unsorted(lines) == lines

\* sorted(cart.items, key=lambda x: x.sku_id)
LockOrder(lines) == SortBySku(lines)

IdleCheckout ==
    [pc |-> "idle", items |-> <<>>, idx |-> 0, i |-> 0, locks |-> <<>>, locked |-> {},
     rel |-> 0, relFalse |-> {}, result |-> "none"]

\* cart = get_user_cart(...); an empty cart raises before any lock is asked for
CkStart(p) ==
    /\ ck[p].pc = "idle"
    /\ ck' = [ck EXCEPT ![p] =
                IF cart[p] = <<>>
                THEN [@ EXCEPT !.pc = "done", !.result = "error"]
                ELSE [@ EXCEPT !.pc = "acquire", !.items = cart[p], !.idx = 1, !.i = 0]]
    /\ UNCHANGED <<ledgerVars, lockVars, orders, cart, resp, seckillVars, activityVars, promoVars, adjustVars>>

\* lock acquisition whose failure returns at once, the locks already taken left alone
CkTryAcquireNoFinally(p) ==
    /\ ck[p].pc = "acquire"
    /\ LET c == ck[p]
           sku == LockOrder(c.items)[c.idx].sku
           r == set_nx(lockKey, sku, Token("ck", p, sku))
       IN /\ lockKey' = r.keys
          /\ ck' = [ck EXCEPT ![p] =
                IF r.ok
                THEN [@ EXCEPT !.locks = Append(@, sku), !.locked = @ \cup {sku},
                               !.i = 0,
                               !.idx = IF c.idx = Len(c.items) THEN 0 ELSE c.idx + 1,
                               !.pc = IF c.idx = Len(c.items) THEN "txn" ELSE "acquire"]
                ELSE IF c.i < retry_times
                THEN [@ EXCEPT !.i = @ + 1]
                ELSE [@ EXCEPT !.result = "error", !.i = 0, !.idx = 0, !.pc = "done"]]
    /\ UNCHANGED <<ledgerVars, lapsed, xfer, orders, cart, resp, seckillVars, activityVars, promoVars, adjustVars>>

\* one try of lock.acquire() for the next SKU in lock order
CkTryAcquire(p) ==
    /\ ck[p].pc = "acquire"
    /\ LET c == ck[p]
           sku == LockOrder(c.items)[c.idx].sku
           r == set_nx(lockKey, sku, Token("ck", p, sku))
       IN /\ lockKey' = r.keys
          /\ ck' = [ck EXCEPT ![p] =
                IF r.ok
                THEN [@ EXCEPT !.locks = Append(@, sku), !.locked = @ \cup {sku},
                               !.i = 0,
                               !.idx = IF c.idx = Len(c.items) THEN 0 ELSE c.idx + 1,
                               !.pc = IF c.idx = Len(c.items) THEN "txn" ELSE "acquire"]
                ELSE IF c.i < retry_times
                THEN [@ EXCEPT !.i = @ + 1]
                \* acquire() returned False: InventoryLockException, rollback, finally
                ELSE [@ EXCEPT !.result = "error", !.i = 0, !.idx = 0, !.rel = 1,
                               !.pc = IF c.locks = <<>> THEN "done" ELSE "release"]]
    /\ UNCHANGED <<ledgerVars, lapsed, xfer, orders, cart, resp, seckillVars, activityVars, promoVars, adjustVars>>

RECURSIVE ReserveLines(_, _, _, _)
ReserveLines(rows, log, lines, order_sn) ==
    IF lines = <<>> THEN Done(rows, log)
    ELSE LET r == reserve_stock(rows, log, Head(lines).sku, Head(lines).qty, order_sn,
                                "order_creation", NoWarehouse)
         IN IF r.ok THEN ReserveLines(r.inv, r.log, Tail(lines), order_sn) ELSE r

\* CartItem.price and SeckillProduct.seckill_price of the catalogue, in cents
\* (Numeric(10, 2) columns)
SkuPrice == [s \in Skus |-> IF s = 1 THEN 110 ELSE 115]
SeckillPrice == [o \in {1} |-> 50]

\* total_amount = sum(item.price * item.quantity); no promotion applies, so pay_amount
\* is the total
RECURSIVE total_amount(_)
total_amount(lines) ==
    IF lines = <<>> THEN 0
    ELSE SkuPrice[Head(lines).sku] * Head(lines).qty + total_amount(Tail(lines))

\* a handler's answer: the operation, the order number it was about, what it returned
\* or raised, the branch it took, and a number: the amount notified in cents
\* (payment), how many orders were cancelled (sweep)
Resp(op, sn, ret, note, n) == [op |-> op, sn |-> sn, ret |-> ret, note |-> note, n |-> n]
NoResp == Resp("none", NoRef, "none", "none", 0)

\* an order created with another status than PENDING_PAYMENT
NewOrderPaid(sn, user, lines, pay_amount, src) ==
    [sn |-> sn, user |-> user, status |-> "PROCESSING", lines |-> lines,
     pay_amount |-> pay_amount, payment_method |-> "none", src |-> src]

NewOrder(sn, user, lines, pay_amount, src) ==
    [sn |-> sn, user |-> user, status |-> "PENDING_PAYMENT", lines |-> lines,
     pay_amount |-> pay_amount, payment_method |-> "none", src |-> src]

\* a transaction that keeps what was written before the exception
NoRollback(res, rows, log) == res

\* async with db.begin_nested(): an exception inside rolls back to the savepoint
begin_nested(res, rows, log) == IF res.ok THEN res ELSE Raised(rows, log)

\* the nested transaction: reserve every line, create the order, clear the cart, commit;
\* InsufficientStockException rolls everything back
CkTxn(p) ==
    /\ ck[p].pc = "txn"
    /\ LET r == begin_nested(ReserveLines(inv, txlog, ck[p].items, SN(p)), inv, txlog)
       IN /\ inv' = r.inv
          /\ txlog' = r.log
          /\ alerts' = alerts \o r.alerts
          /\ IF r.ok
             THEN /\ orders' = orders \cup
                        {NewOrder(SN(p), p, ck[p].items, total_amount(ck[p].items), "checkout")}
                  /\ cart' = [cart EXCEPT ![p] = <<>>]
                  /\ ck' = [ck EXCEPT ![p].pc = "release", ![p].rel = 1, ![p].result = "order"]
             ELSE /\ UNCHANGED <<orders, cart>>
                  /\ ck' = [ck EXCEPT ![p].pc = "release", ![p].rel = 1, ![p].result = "error"]
    /\ UNCHANGED <<lockVars, resp, seckillVars, activityVars, promoVars, adjustVars>>

\* finally: for lock in locks: await lock.release()
CkRelease(p) ==
    /\ ck[p].pc = "release"
    /\ LET c == ck[p]
           sku == c.locks[c.rel]
           r == IF sku \in c.locked
                THEN release_script(lockKey, sku, Token("ck", p, sku))
                ELSE [ok |-> FALSE, keys |-> lockKey]
       IN /\ lockKey' = r.keys
          /\ ck' = [ck EXCEPT ![p] =
                [@ EXCEPT !.locked = IF r.ok THEN @ \ {sku} ELSE @,
                          !.relFalse = IF r.ok THEN @ ELSE @ \cup {sku},
                          !.rel = @ + 1,
                          !.pc = IF c.rel = Len(c.locks) THEN "done" ELSE "release"]]
    /\ UNCHANGED <<ledgerVars, lapsed, xfer, orders, cart, resp, seckillVars, activityVars, promoVars, adjustVars>>

CkStep(p) == CkStart(p) \/ CkTryAcquire(p) \/ CkTxn(p) \/ CkRelease(p)

(***************************************************************************)
(* Cancellation, payment notification and the timeout sweep:               *)
(* OrderService.cancel_order, OrderService.process_payment_notification    *)
(* (app/services/order_service.py), _async_cancel_overdue_orders           *)
(* (app/tasks/order_tasks.py).  Each runs in one database transaction that *)
(* starts by locking the order row (SELECT ... FOR UPDATE).                *)
(***************************************************************************)
\* user=None: the system cancels
NoUser == 0

Outcome(os, rows, log, ret, note) ==
    [orders |-> os, inv |-> rows, log |-> log, alerts |-> <<>>, ret |-> ret, note |-> note]

SetStatus(os, o, status) == (os \ {o}) \cup {[o EXCEPT !.status = status]}

\* status PROCESSING with pay_time, payment_method and trade_no
SetPaid(os, o) ==
    (os \ {o}) \cup {[o EXCEPT !.status = "PROCESSING", !.payment_method = "alipay"]}

\* the keyword parameters of release_reserved_stock, those without a default, and the
\* keywords cancel_order passes
ReleaseParams ==
    {"db", "reference_id", "original_reference_types", "new_reference_type",
     "operator_id", "notes"}
ReleaseRequired == {"db", "reference_id", "original_reference_types", "new_reference_type"}
CancelKeywords ==
    {"db", "reference_id", "original_reference_type", "new_reference_type",
     "operator_id", "notes"}

\* a call by keywords: an unknown keyword or a missing required one raises TypeError
\* before the body runs
call_release(keywords, rows, log, ref, types, new_type) ==
    IF keywords \subseteq ReleaseParams /\ ReleaseRequired \subseteq keywords
    THEN release_reserved_stock(rows, log, ref, types, new_type)
    ELSE Raised(rows, log)

\* a cancellation that skips the status check
CancelAnyStatus(os, rows, log, order_sn, user) ==
    LET found == {o \in os : o.sn = order_sn /\ (user = NoUser \/ o.user = user)}
    IN IF found = {} THEN Outcome(os, rows, log, "ValueError", "not_found")
       ELSE LET order == CHOOSE o \in found : TRUE
                rel == call_release(CancelKeywords, rows, log, order.sn,
                                    {"order_creation"}, "order_cancellation")
            IN IF ~rel.ok THEN Outcome(os, rows, log, "TypeError", "release")
               ELSE Outcome(SetStatus(os, order, "CANCELLED"), rel.inv, rel.log,
                            "order", "cancelled")

\* cancel_order: the order by number (and owner, when a user cancels), the status
\* check, the release of its reservations, the status CANCELLED; an exception leaves
\* the nested transaction rolled back
cancel_order(os, rows, log, order_sn, user) ==
    LET found == {o \in os : o.sn = order_sn /\ (user = NoUser \/ o.user = user)}
    IN IF found = {} THEN Outcome(os, rows, log, "ValueError", "not_found")
       ELSE LET order == CHOOSE o \in found : TRUE
            IN IF order.status # "PENDING_PAYMENT"
               THEN Outcome(os, rows, log, "ValueError", "status")
               ELSE LET rel == call_release(CancelKeywords, rows, log, order.sn,
                                            {"order_creation"}, "order_cancellation")
                    IN IF ~rel.ok THEN Outcome(os, rows, log, "TypeError", "release")
                       ELSE Outcome(SetStatus(os, order, "CANCELLED"), rel.inv, rel.log,
                                    "order", "cancelled")

\* float(total_amount_str): the amount in cents and whether the binary float is
\* exactly that decimal (a multiple of 0.25)
float_of(cents) == [cents |-> cents, exact |-> cents % 25 = 0]

\* order.pay_amount != total_amount, a Decimal against a float: compared exactly
decimal_ne_float(pay_amount, f) == ~(f.exact /\ f.cents = pay_amount)

\* a notification handler without the status (idempotency) check
PayAnyStatus(os, rows, log, order_sn, total) ==
    LET found == {o \in os : o.sn = order_sn}
    IN IF found = {} THEN Outcome(os, rows, log, "True", "not_found")
       ELSE LET order == CHOOSE o \in found : TRUE
            IN IF decimal_ne_float(order.pay_amount, total)
               THEN Outcome(os, rows, log, "True", "amount_mismatch")
               ELSE LET c == commit_reserved_stock(rows, log, order.sn)
                    IN [Outcome(SetPaid(os, order), c.inv, c.log, "True", "paid")
                           EXCEPT !.alerts = c.alerts]

\* a notification handler without the amount check
PayAnyAmount(os, rows, log, order_sn, total) ==
    LET found == {o \in os : o.sn = order_sn}
    IN IF found = {} THEN Outcome(os, rows, log, "True", "not_found")
       ELSE LET order == CHOOSE o \in found : TRUE
            IN IF order.status # "PENDING_PAYMENT"
               THEN Outcome(os, rows, log, "True", "already_processed")
               ELSE LET c == commit_reserved_stock(rows, log, order.sn)
                    IN [Outcome(SetPaid(os, order), c.inv, c.log, "True", "paid")
                           EXCEPT !.alerts = c.alerts]

\* process_payment_notification: always returns True; the order by number, the status
\* check, the amount check, then status PROCESSING and the commit of its reservations
process_payment_notification(os, rows, log, order_sn, total) ==
    LET found == {o \in os : o.sn = order_sn}
    IN IF found = {} THEN Outcome(os, rows, log, "True", "not_found")
       ELSE LET order == CHOOSE o \in found : TRUE
            IN IF order.status # "PENDING_PAYMENT"
               THEN Outcome(os, rows, log, "True", "already_processed")
               ELSE IF decimal_ne_float(order.pay_amount, total)
               THEN Outcome(os, rows, log, "True", "amount_mismatch")
               ELSE LET c == commit_reserved_stock(rows, log, order.sn)
                    IN [Outcome(SetPaid(os, order), c.inv, c.log, "True", "paid")
                           EXCEPT !.alerts = c.alerts]

\* the loop of _async_cancel_overdue_orders: cancel_order for each overdue order, an
\* exception logged and the loop going on; the count of those cancelled
RECURSIVE cancel_overdue(_, _, _, _, _)
cancel_overdue(os, rows, log, sns, count) ==
    IF sns = {}
    THEN [orders |-> os, inv |-> rows, log |-> log, alerts |-> <<>>, n |-> count]
    ELSE LET sn == CHOOSE x \in sns : TRUE
             c == cancel_order(os, rows, log, sn, NoUser)
         IN cancel_overdue(c.orders, c.inv, c.log, sns \ {sn},
                           IF c.ret = "order" THEN count + 1 ELSE count)

\* POST /orders/{order_sn}/cancel by a user
Cancel(order_sn, user) ==
    /\ LET c == cancel_order(orders, inv, txlog, order_sn, user)
       IN /\ orders' = c.orders
          /\ inv' = c.inv
          /\ txlog' = c.log
          /\ alerts' = alerts \o c.alerts
          /\ resp' = Resp("cancel", order_sn, c.ret, c.note, 0)
    /\ UNCHANGED <<lockVars, ck, cart, seckillVars, activityVars, promoVars, adjustVars>>

\* the payment provider's notification for an order number and an amount
PayNotify(order_sn, cents) ==
    /\ LET c == process_payment_notification(orders, inv, txlog, order_sn, float_of(cents))
       IN /\ orders' = c.orders
          /\ inv' = c.inv
          /\ txlog' = c.log
          /\ alerts' = alerts \o c.alerts
          /\ resp' = Resp("pay", order_sn, c.ret, c.note, cents)
    /\ UNCHANGED <<lockVars, ck, cart, seckillVars, activityVars, promoVars, adjustVars>>

\* the periodic sweep; `overdue` are the PENDING_PAYMENT orders older than the cutoff
Sweep(overdue) ==
    /\ overdue \subseteq {o.sn : o \in {x \in orders : x.status = "PENDING_PAYMENT"}}
    /\ LET c == cancel_overdue(orders, inv, txlog, overdue, 0)
       IN /\ orders' = c.orders
          /\ inv' = c.inv
          /\ txlog' = c.log
          /\ alerts' = alerts \o c.alerts
          /\ resp' = Resp("sweep", NoRef, "done", "none", c.n)
    /\ UNCHANGED <<lockVars, ck, cart, seckillVars, activityVars, promoVars, adjustVars>>

(***************************************************************************)
(* Flash-sale admission: SeckillService.create_seckill_order,              *)
(* app/services/seckill_service.py.  One activity with one offer (seckill  *)
(* product 1, on SKU 1), preloaded and inside or outside its window.       *)
(***************************************************************************)
seckill_stock == 2
purchase_limit == 1
NumUsers == 3
MaxAttempts == 3

Users == 1..NumUsers
Offers == {1}
\* seckill:activity:<id>:sku_map
SkuMap == [s \in {1} |-> 1]
\* seckill:product:<offer>; instants are counted in half seconds and the window is
\* [1, 2] on the clock 0..3
OfferInfo ==
    [o \in Offers |->
        [sku_id |-> 1, purchase_limit |-> purchase_limit, start_time |-> 1, end_time |-> 2]]
InWindow == OfferInfo[1].start_time
Times == {0, 1, 2, 3}

\* datetime.isoformat() of a UTC instant, as character codes: the seconds digit, the
\* fraction ".5" only when there is one, then the "+" of the offset "+00:00"
isoformat(t) ==
    <<48 + (t \div 2)>> \o (IF t % 2 = 1 THEN <<46, 53>> ELSE <<>>) \o <<43>>

\* Lua's < on strings: byte by byte, a proper prefix is smaller
RECURSIVE str_lt(_, _)
str_lt(a, b) ==
    IF b = <<>> THEN FALSE
    ELSE IF a = <<>> THEN TRUE
    ELSE IF Head(a) # Head(b) THEN Head(a) < Head(b)
    ELSE str_lt(Tail(a), Tail(b))
ReqIds == 1..MaxAttempts

ScriptResult(code, stk, pur, offer) ==
    [code |-> code, stock |-> stk, purchased |-> pur, offer |-> offer]

\* the script without its stock check
NoStockCheck(stk, pur, user, sku, quantity, now) ==
    IF sku \notin DOMAIN SkuMap THEN ScriptResult(-1, stk, pur, 0)
    ELSE LET o == SkuMap[sku]
         IN IF str_lt(isoformat(now), isoformat(OfferInfo[o].start_time))
            THEN ScriptResult(-2, stk, pur, o)
            ELSE IF str_lt(isoformat(OfferInfo[o].end_time), isoformat(now))
            THEN ScriptResult(-3, stk, pur, o)
            ELSE IF pur[user][o] + quantity > OfferInfo[o].purchase_limit
            THEN ScriptResult(-5, stk, pur, o)
            ELSE ScriptResult(1, [stk EXCEPT ![o] = @ - quantity],
                              [pur EXCEPT ![user][o] = @ + quantity], o)

\* the script without its purchase-limit check
NoLimitCheck(stk, pur, user, sku, quantity, now) ==
    IF sku \notin DOMAIN SkuMap THEN ScriptResult(-1, stk, pur, 0)
    ELSE LET o == SkuMap[sku]
         IN IF str_lt(isoformat(now), isoformat(OfferInfo[o].start_time))
            THEN ScriptResult(-2, stk, pur, o)
            ELSE IF str_lt(isoformat(OfferInfo[o].end_time), isoformat(now))
            THEN ScriptResult(-3, stk, pur, o)
            ELSE IF stk[o] < quantity THEN ScriptResult(-4, stk, pur, o)
            ELSE ScriptResult(1, [stk EXCEPT ![o] = @ - quantity],
                              [pur EXCEPT ![user][o] = @ + quantity], o)

\* the script with the purchase-limit check ahead of the stock check
LimitBeforeStock(stk, pur, user, sku, quantity, now) ==
    IF sku \notin DOMAIN SkuMap THEN ScriptResult(-1, stk, pur, 0)
    ELSE LET o == SkuMap[sku]
         IN IF str_lt(isoformat(now), isoformat(OfferInfo[o].start_time))
            THEN ScriptResult(-2, stk, pur, o)
            ELSE IF str_lt(isoformat(OfferInfo[o].end_time), isoformat(now))
            THEN ScriptResult(-3, stk, pur, o)
            ELSE IF pur[user][o] + quantity > OfferInfo[o].purchase_limit
            THEN ScriptResult(-5, stk, pur, o)
            ELSE IF stk[o] < quantity THEN ScriptResult(-4, stk, pur, o)
            ELSE ScriptResult(1, [stk EXCEPT ![o] = @ - quantity],
                              [pur EXCEPT ![user][o] = @ + quantity], o)

\* the script taking the stock before it checks the purchase limit
DecrBeforeLimit(stk, pur, user, sku, quantity, now) ==
    IF sku \notin DOMAIN SkuMap THEN ScriptResult(-1, stk, pur, 0)
    ELSE LET o == SkuMap[sku]
         IN IF str_lt(isoformat(now), isoformat(OfferInfo[o].start_time))
            THEN ScriptResult(-2, stk, pur, o)
            ELSE IF str_lt(isoformat(OfferInfo[o].end_time), isoformat(now))
            THEN ScriptResult(-3, stk, pur, o)
            ELSE IF stk[o] < quantity THEN ScriptResult(-4, stk, pur, o)
            ELSE IF pur[user][o] + quantity > OfferInfo[o].purchase_limit
            THEN ScriptResult(-5, [stk EXCEPT ![o] = @ - quantity], pur, o)
            ELSE ScriptResult(1, [stk EXCEPT ![o] = @ - quantity],
                              [pur EXCEPT ![user][o] = @ + quantity], o)

\* the admission Lua script, one indivisible step of the fast store: the checks in
\* their order (-1 .. -5), then DECRBY and HINCRBY
admission_script(stk, pur, user, sku, quantity, now) ==
    IF sku \notin DOMAIN SkuMap THEN ScriptResult(-1, stk, pur, 0)
    ELSE LET o == SkuMap[sku]
         IN IF str_lt(isoformat(now), isoformat(OfferInfo[o].start_time))
            THEN ScriptResult(-2, stk, pur, o)
            ELSE IF str_lt(isoformat(OfferInfo[o].end_time), isoformat(now))
            THEN ScriptResult(-3, stk, pur, o)
            ELSE IF stk[o] < quantity THEN ScriptResult(-4, stk, pur, o)
            ELSE IF pur[user][o] + quantity > OfferInfo[o].purchase_limit
            THEN ScriptResult(-5, stk, pur, o)
            ELSE ScriptResult(1, [stk EXCEPT ![o] = @ - quantity],
                              [pur EXCEPT ![user][o] = @ + quantity], o)

\* One record per materialization job (a message on the task queue):
\*   pc       where the job is: "queued" (waiting for a worker, first delivery or
\*            retry), "acquire" .. "finally" (inside _run_create_seckill_order),
\*            "done" (returned), "dead" (retries exhausted)
\*   retries  self.request.retries;  runs  deliveries started so far
\*   i        the try RedisLock.acquire is at;  locked  the lock object's _locked flag
\*   err      the exception the run is unwinding with, if any
\*   fails, nolock, comps   history: runs that raised, runs that raised for the lock,
\*            runs of the compensation script
NoJob ==
    [pc |-> "none", user |-> 0, offer |-> 0, sku |-> 0, qty |-> 0, retries |-> 0,
     runs |-> 0, i |-> 0, locked |-> FALSE, err |-> FALSE,
     fails |-> 0, nolock |-> 0, comps |-> 0]

Admitted == {k \in 1..Len(attempts) : attempts[k].code = 1}

\* the two statements after the script with the task sent first
SendThenStatus == <<"send_task", "set_status">>

\* the statements of create_seckill_order after a successful script, in program order:
\* redis.set of the initial status, then celery_app.send_task
admit_steps == <<"set_status", "send_task">>

\* create_seckill_order: the script; on success the PROCESSING record under a fresh
\* request id, then the job is sent to the queue.  A failure code raises ValueError.
Admit(user, sku, quantity, now, max) ==
    /\ Len(attempts) < max
    /\ LET res == admission_script(stock, purchased, user, sku, quantity, now)
           rid == Cardinality(Admitted) + 1
       IN /\ stock' = res.stock
          /\ purchased' = res.purchased
          /\ attempts' = Append(attempts,
                [user |-> user, sku |-> sku, qty |-> quantity, now |-> now,
                 code |-> res.code, req |-> IF res.code = 1 THEN rid ELSE 0,
                 at |-> Len(admit_steps) + 1])
          /\ IF res.code = 1
             THEN /\ reqStatus' = [reqStatus EXCEPT ![rid] = "PROCESSING"]
                  /\ job' = [job EXCEPT ![rid] =
                        [NoJob EXCEPT !.pc = "queued", !.user = user, !.offer = res.offer,
                                      !.sku = sku, !.qty = quantity]]
             ELSE UNCHANGED <<reqStatus, job>>
    /\ UNCHANGED <<ledgerVars, lockVars, checkoutVars,
                 activityVars, promoVars, adjustVars>>

(***************************************************************************)
(* Materializer: create_seckill_order_task and _run_create_seckill_order,  *)
(* app/tasks/seckill_tasks.py.                                             *)
(***************************************************************************)
max_retries == 3

\* an except branch that re-raises without writing the status record
FailureWithoutStatus(j, status) ==
    IF j.retries >= max_retries
    THEN [job |-> [j EXCEPT !.pc = "dead", !.err = FALSE, !.fails = @ + 1],
          status |-> status]
    ELSE [job |-> [j EXCEPT !.pc = "queued", !.retries = @ + 1, !.err = FALSE,
                            !.fails = @ + 1],
          status |-> status]

\* the except branch of create_seckill_order_task: on the last delivery write FAILED
\* (request_id and user_id are set), then re-raise; autoretry re-queues the task while
\* retries < max_retries
task_except(j, status) ==
    IF j.retries >= max_retries
    THEN [job |-> [j EXCEPT !.pc = "dead", !.err = FALSE, !.fails = @ + 1],
          status |-> "FAILED"]
    ELSE [job |-> [j EXCEPT !.pc = "queued", !.retries = @ + 1, !.err = FALSE,
                            !.fails = @ + 1],
          status |-> status]

\* COMPENSATE_REDIS_LUA: give the quantity back to the stock counter and, the user's
\* purchase field being there, take it off the purchase count
compensate_script(stk, pur, user, o, quantity) ==
    [stock |-> [stk EXCEPT ![o] = @ + quantity],
     purchased |-> [pur EXCEPT ![user][o] = @ - quantity]]

\* a worker takes the job and RedisLock.acquire tries SET NX; after retry_times failed
\* retries acquire returns False and the run raises before its try block: no rollback,
\* no compensation, no release
JobTryAcquire(r) ==
    /\ job[r].pc \in {"queued", "acquire"}
    /\ LET j == IF job[r].pc = "queued"
                THEN [job[r] EXCEPT !.runs = @ + 1, !.i = 0]
                ELSE job[r]
           res == set_nx(lockKey, j.sku, Token("job", r, j.runs))
       IN /\ lockKey' = res.keys
          /\ IF res.ok
             THEN /\ job' = [job EXCEPT ![r] = [j EXCEPT !.pc = "locked", !.locked = TRUE]]
                  /\ UNCHANGED reqStatus
             ELSE IF j.i < retry_times
             THEN /\ job' = [job EXCEPT ![r] = [j EXCEPT !.pc = "acquire", !.i = @ + 1]]
                  /\ UNCHANGED reqStatus
             ELSE LET w == task_except([j EXCEPT !.nolock = @ + 1], reqStatus[r])
                  IN /\ job' = [job EXCEPT ![r] = w.job]
                     /\ reqStatus' = [reqStatus EXCEPT ![r] = w.status]
    /\ UNCHANGED <<ledgerVars, lapsed, xfer, checkoutVars, stock, purchased, attempts,
                 activityVars, promoVars, adjustVars>>

\* session.get(SeckillProduct): found, or not (row gone, database error); not found the
\* except block rolls back and, seckill_product being None, skips the compensation
JobLoad(r, found) ==
    /\ job[r].pc = "locked"
    /\ job' = [job EXCEPT ![r] =
          IF found THEN [@ EXCEPT !.pc = "loaded"]
          ELSE [@ EXCEPT !.pc = "finally", !.err = TRUE]]
    /\ UNCHANGED <<ledgerVars, lockVars, checkoutVars, stock, purchased, attempts, reqStatus,
                 activityVars, promoVars, adjustVars>>

\* a transaction step that goes on to the SUCCESS record whether or not it committed
JobTxnUnchecked(r, fault) ==
    /\ job[r].pc = "loaded"
    /\ LET j == job[r]
           order_sn == SKSN(r, j.runs)
           res == reserve_stock(inv, txlog, j.sku, j.qty, order_sn,
                                "seckill_order_creation", NoWarehouse)
       IN /\ job' = [job EXCEPT ![r].pc = "committed"]
          /\ IF res.ok /\ ~fault
             THEN /\ inv' = res.inv
                  /\ txlog' = res.log
                  /\ alerts' = alerts \o res.alerts
                  /\ orders' = orders \cup
                       {NewOrder(order_sn, j.user, <<Line(j.sku, j.qty)>>,
                                 SeckillPrice[j.offer] * j.qty, "seckill")}
             ELSE UNCHANGED <<ledgerVars, orders>>
    /\ UNCHANGED <<lockVars, ck, cart, resp, stock, purchased, attempts, reqStatus,
                 activityVars, promoVars, adjustVars>>

\* the nested transaction and the commit: reserve the stock under a fresh order number,
\* add the order; InsufficientStockException or a failed commit goes to the except block
JobTxn(r, fault) ==
    /\ job[r].pc = "loaded"
    /\ LET j == job[r]
           order_sn == SKSN(r, j.runs)
           res == reserve_stock(inv, txlog, j.sku, j.qty, order_sn,
                                "seckill_order_creation", NoWarehouse)
       IN IF res.ok /\ ~fault
          THEN /\ inv' = res.inv
               /\ txlog' = res.log
               /\ alerts' = alerts \o res.alerts
               /\ orders' = orders \cup
                    {NewOrder(order_sn, j.user, <<Line(j.sku, j.qty)>>,
                              SeckillPrice[j.offer] * j.qty, "seckill")}
               /\ job' = [job EXCEPT ![r].pc = "committed"]
          ELSE /\ job' = [job EXCEPT ![r].pc = "compensate"]
               /\ UNCHANGED <<ledgerVars, orders>>
    /\ UNCHANGED <<lockVars, ck, cart, resp, stock, purchased, attempts, reqStatus,
                 activityVars, promoVars, adjustVars>>

\* redis.set of the SUCCESS record after the commit; if it raises, the except block
\* runs with the order already committed
JobStatus(r, ok) ==
    /\ job[r].pc = "committed"
    /\ IF ok
       THEN /\ reqStatus' = [reqStatus EXCEPT ![r] = "SUCCESS"]
            /\ job' = [job EXCEPT ![r].pc = "finally"]
       ELSE /\ job' = [job EXCEPT ![r].pc = "compensate"]
            /\ UNCHANGED reqStatus
    /\ UNCHANGED <<ledgerVars, lockVars, checkoutVars, stock, purchased, attempts,
                 activityVars, promoVars, adjustVars>>

\* the except block with the offer loaded: rollback, then the compensation script
JobCompensate(r) ==
    /\ job[r].pc = "compensate"
    /\ LET j == job[r]
           res == compensate_script(stock, purchased, j.user, j.offer, j.qty)
       IN /\ stock' = res.stock
          /\ purchased' = res.purchased
          /\ job' = [job EXCEPT ![r] = [j EXCEPT !.pc = "finally", !.err = TRUE,
                                                  !.comps = @ + 1]]
    /\ UNCHANGED <<ledgerVars, lockVars, checkoutVars, attempts, reqStatus,
                 activityVars, promoVars, adjustVars>>

\* the finally block releases the lock; then the run returns, or its exception reaches
\* create_seckill_order_task
JobFinally(r) ==
    /\ job[r].pc = "finally"
    /\ LET j == job[r]
           res == release_script(lockKey, j.sku, Token("job", r, j.runs))
           rel == [j EXCEPT !.locked = IF res.ok THEN FALSE ELSE @]
       IN /\ lockKey' = res.keys
          /\ IF j.err
             THEN LET w == task_except(rel, reqStatus[r])
                  IN /\ job' = [job EXCEPT ![r] = w.job]
                     /\ reqStatus' = [reqStatus EXCEPT ![r] = w.status]
             ELSE /\ job' = [job EXCEPT ![r] = [rel EXCEPT !.pc = "done"]]
                  /\ UNCHANGED reqStatus
    /\ UNCHANGED <<ledgerVars, lapsed, xfer, checkoutVars, stock, purchased, attempts,
                 activityVars, promoVars, adjustVars>>

(***************************************************************************)
(* Activity lifecycle: SeckillService.load_activity_to_redis and            *)
(* update_activity (app/services/seckill_service.py) and the periodic       *)
(* status task _run_update_seckill_status (app/tasks/seckill_tasks.py).     *)
(* One activity; times are instants 0 .. MaxTime.                           *)
(***************************************************************************)
MaxTime == 3
ActivityStatuses == {"PENDING", "ACTIVE", "ENDED"}

\* create_activity: status defaults to PENDING, end_time after start_time
NewActivity(start_time, end_time) ==
    [status |-> "PENDING", start_time |-> start_time, end_time |-> end_time]
NotLoaded == [keys |-> FALSE, pc |-> "idle"]

ClockTick ==
    /\ clock < MaxTime
    /\ clock' = clock + 1
    /\ UNCHANGED <<ledgerVars, lockVars, checkoutVars, seckillVars, promoVars, adjustVars, activity, preload>>

\* load_activity_to_redis up to the end of the Lua script: the status must be PENDING;
\* the script writes the stock counters, the metadata hashes and the SKU map
PreloadEval ==
    /\ preload.pc = "idle"
    /\ activity.status = "PENDING"
    /\ preload' = [keys |-> TRUE, pc |-> "commit"]
    /\ UNCHANGED <<ledgerVars, lockVars, checkoutVars, seckillVars, promoVars, adjustVars, activity, clock>>

\* db_activity.status = ACTIVE; commit; the preload lock released
PreloadCommit ==
    /\ preload.pc = "commit"
    /\ activity' = [activity EXCEPT !.status = "ACTIVE"]
    /\ preload' = [preload EXCEPT !.pc = "idle"]
    /\ UNCHANGED <<ledgerVars, lockVars, checkoutVars, seckillVars, promoVars, adjustVars, clock>>

\* the two UPDATE statements of the status task, in one transaction
update_seckill_status(a, now) ==
    LET a1 == IF a.status = "PENDING" /\ a.start_time <= now
              THEN [a EXCEPT !.status = "ACTIVE"] ELSE a
    IN IF a1.status = "ACTIVE" /\ a1.end_time <= now
       THEN [a1 EXCEPT !.status = "ENDED"] ELSE a1

StatusSweep ==
    /\ activity' = update_seckill_status(activity, clock)
    /\ UNCHANGED <<ledgerVars, lockVars, checkoutVars, seckillVars, promoVars, adjustVars, preload, clock>>

\* update_activity: refused unless the activity is PENDING; every field given is set
UpdateActivity(field, value) ==
    /\ activity.status = "PENDING"
    /\ activity' = [activity EXCEPT ![field] = value]
    /\ UNCHANGED <<ledgerVars, lockVars, checkoutVars, seckillVars, promoVars, adjustVars, preload, clock>>

\* the ledger before the sale: every SKU stocked in warehouse 1 by a stock-in
InitStockQty == 1
StockedRows ==
    [it \in Items |->
        IF it[2] = 1 THEN [exists |-> TRUE, quantity |-> InitStockQty, reserved |-> 0]
        ELSE NoItem]
StockedLog ==
    <<Tx(<<1, 1>>, "STOCK_IN", InitStockQty, NoRef, "purchase"),
      Tx(<<2, 1>>, "STOCK_IN", InitStockQty, NoRef, "purchase")>>

\* two checkout requests about to start, each user's cart any of Carts; no lock key
\* set; no flash sale loaded
InitCheckout ==
    /\ inv = StockedRows
    /\ txlog = StockedLog
    /\ alerts = <<>>
    /\ lockKey = [s \in Skus |-> NoToken]
    /\ lapsed = {}
    /\ xfer = [s \in Skus |-> "idle"]
    /\ ck = [p \in Procs |-> IdleCheckout]
    /\ orders = {}
    /\ cart \in [Procs -> Carts]
    /\ resp = NoResp
    /\ stock = 0 /\ purchased = 0 /\ attempts = 0 /\ job = 0 /\ reqStatus = 0
    /\ activity = 0 /\ preload = 0 /\ clock = 0
    /\ promotions = 0 /\ selected = 0 /\ adjusting = 0

NextCheckout ==
    \/ \E p \in Procs : CkStart(p)
    \/ \E p \in Procs : CkTryAcquire(p)
    \/ \E p \in Procs : CkTxn(p)
    \/ \E p \in Procs : CkRelease(p)
    \/ \E s \in Skus : LockExpire(s)

SpecCheckout ==
    InitCheckout /\ [][NextCheckout]_vars

(***************************************************************************)
(* Checkout beside the same user's cart requests:                          *)
(* CartService.add_item_to_cart, app/services/cart_service.py.             *)
(***************************************************************************)
\* add_item_to_cart: the line of the SKU gets the quantity added, or a new CartItem is
\* added (SKU.stock, which bounds the line's quantity, is MaxQty here); commit
add_item_to_cart(items, sku, quantity) ==
    IF \E i \in 1..Len(items) : items[i].sku = sku
    THEN [i \in 1..Len(items) |->
             IF items[i].sku = sku THEN Line(sku, items[i].qty + quantity) ELSE items[i]]
    ELSE Append(items, Line(sku, quantity))

\* POST /cart/items by the user of checkout request p
CartAdd(p, sku, quantity) ==
    /\ \A i \in 1..Len(cart[p]) : cart[p][i].sku = sku => cart[p][i].qty + quantity <= MaxQty
    /\ cart' = [cart EXCEPT ![p] = add_item_to_cart(@, sku, quantity)]
    /\ UNCHANGED <<ledgerVars, lockVars, ck, orders, resp, seckillVars, activityVars, promoVars, adjustVars>>

CartNext ==
    \/ \E p \in Procs : CkStart(p)
    \/ \E p \in Procs : CkTryAcquire(p)
    \/ \E p \in Procs : CkTxn(p)
    \/ \E p \in Procs : CkRelease(p)
    \/ \E p \in Procs, sku \in Skus : CartAdd(p, sku, 1)

SpecCart ==
    InitCheckout /\ [][CartNext]_vars

\* every request handler runs to its end once started (the event loop schedules
\* each pending coroutine); a key's expiry is not forced
SpecCheckoutLive ==
    SpecCheckout /\ \A p \in Procs : WF_vars(CkStep(p))

\* the offer preloaded (load_activity_to_redis): its stock counter at seckill_stock, no
\* purchase count, no request; the ledger stocked; no checkout running
InitAdmission ==
    /\ inv = StockedRows
    /\ txlog = StockedLog
    /\ alerts = <<>>
    /\ lockKey = [s \in Skus |-> NoToken]
    /\ lapsed = {}
    /\ xfer = [s \in Skus |-> "idle"]
    /\ ck = 0 /\ orders = {} /\ cart = 0 /\ resp = NoResp
    /\ stock = [o \in Offers |-> seckill_stock]
    /\ purchased = [u \in Users |-> [o \in Offers |-> 0]]
    /\ attempts = <<>>
    /\ job = [r \in ReqIds |-> NoJob]
    /\ reqStatus = [r \in ReqIds |-> "NONE"]
    /\ activity = 0 /\ preload = 0 /\ clock = 0
    /\ promotions = 0 /\ selected = 0 /\ adjusting = 0

\* the inputs of the admission attempts: any user and quantity on the offer's SKU
\* inside the window; and a SKU outside the activity, a time before and a time after
\* the window
Qtys == {1, 2}
AdmissionInputs ==
    {<<u, 1, q, InWindow>> : u \in Users, q \in Qtys}
        \cup {<<u, 2, 1, InWindow>> : u \in Users}
        \cup {<<u, 1, 1, t>> : u \in Users, t \in Times \ {InWindow}}

AdmissionNext ==
    \E in \in AdmissionInputs : Admit(in[1], in[2], in[3], in[4], MaxAttempts)

\* admission attempts alone: no materialization job runs
SpecAdmission ==
    InitAdmission /\ [][AdmissionNext]_vars

\* the offer preloaded; the ledger of the sale's SKU holds more than the sale's allotment
InitSeckill ==
    /\ inv = [it \in Items |->
                IF it = <<1, 1>>
                THEN [exists |-> TRUE, quantity |-> seckill_stock + 1, reserved |-> 0]
                ELSE NoItem]
    /\ txlog = <<Tx(<<1, 1>>, "STOCK_IN", seckill_stock + 1, NoRef, "purchase")>>
    /\ alerts = <<>>
    /\ lockKey = [s \in Skus |-> NoToken]
    /\ lapsed = {}
    /\ xfer = [s \in Skus |-> "idle"]
    /\ ck = 0 /\ orders = {} /\ cart = 0 /\ resp = NoResp
    /\ stock = [o \in Offers |-> seckill_stock]
    /\ purchased = [u \in Users |-> [o \in Offers |-> 0]]
    /\ attempts = <<>>
    /\ job = [r \in ReqIds |-> NoJob]
    /\ reqStatus = [r \in ReqIds |-> "NONE"]
    /\ activity = 0 /\ preload = 0 /\ clock = 0
    /\ promotions = 0 /\ selected = 0 /\ adjusting = 0

\* InventoryService.transfer_stock takes the same per-SKU lock as the materializer:
\* RedisLock.acquire (a failed acquire raises InventoryLockException and changes
\* nothing), ...
TransferAcquire(sku) ==
    /\ xfer[sku] = "idle"
    /\ LET res == set_nx(lockKey, sku, Token("xfer", 0, sku))
       IN /\ res.ok
          /\ lockKey' = res.keys
          /\ xfer' = [xfer EXCEPT ![sku] = "held"]
    /\ UNCHANGED <<ledgerVars, lapsed, checkoutVars, seckillVars, activityVars, promoVars, adjustVars>>

\* ... then the transfer and its commit, or InsufficientStockException and its rollback,
\* and the release in the finally block
TransferRun(sku, from_wh, to_wh, quantity) ==
    /\ xfer[sku] = "held"
    /\ LET res == transfer_stock(inv, txlog, sku, from_wh, to_wh, quantity)
       IN IF res.ok /\ Len(res.log) <= MaxLog
          THEN inv' = res.inv /\ txlog' = res.log /\ alerts' = alerts \o res.alerts
          ELSE UNCHANGED ledgerVars
    /\ lockKey' = release_script(lockKey, sku, Token("xfer", 0, sku)).keys
    /\ xfer' = [xfer EXCEPT ![sku] = "idle"]
    /\ UNCHANGED <<lapsed, checkoutVars, seckillVars, activityVars, promoVars, adjustVars>>

\* one admission attempt: no other request touches the offer
SaleRequests == {1}

SeckillNext ==
    \/ \E u \in Users, q \in Qtys :
          Admit(u, OfferInfo[1].sku_id, q, InWindow, Cardinality(SaleRequests))
    \/ \E r \in SaleRequests : JobTryAcquire(r)
    \/ \E r \in SaleRequests, found \in BOOLEAN : JobLoad(r, found)
    \/ \E r \in SaleRequests, fault \in BOOLEAN : JobTxn(r, fault)
    \/ \E r \in SaleRequests, ok \in BOOLEAN : JobStatus(r, ok)
    \/ \E r \in SaleRequests : JobCompensate(r)
    \/ \E r \in SaleRequests : JobFinally(r)
    \/ TransferAcquire(OfferInfo[1].sku_id)
    \/ \E f \in Warehouses, t \in Warehouses :
          TransferRun(OfferInfo[1].sku_id, f, t, 1)

\* admissions inside the window and the materialization jobs they enqueue
SpecSeckill ==
    InitSeckill /\ [][SeckillNext]_vars

(***************************************************************************)
(* The admission handler statement by statement, beside the job it sends:  *)
(* the script, then each statement of admit_steps as a step of its own     *)
(* (attempts[k].at is the statement the handler of attempt k is at).       *)
(***************************************************************************)
AdmitScript(user, sku, quantity, now, max) ==
    /\ Len(attempts) < max
    /\ LET res == admission_script(stock, purchased, user, sku, quantity, now)
           rid == Cardinality(Admitted) + 1
       IN /\ stock' = res.stock
          /\ purchased' = res.purchased
          /\ attempts' = Append(attempts,
                [user |-> user, sku |-> sku, qty |-> quantity, now |-> now,
                 code |-> res.code, req |-> IF res.code = 1 THEN rid ELSE 0,
                 at |-> IF res.code = 1 THEN 1 ELSE Len(admit_steps) + 1])
    /\ UNCHANGED <<reqStatus, job, ledgerVars, lockVars, checkoutVars, activityVars, promoVars, adjustVars>>

AdmitStep(k) ==
    /\ k \in 1..Len(attempts)
    /\ attempts[k].at <= Len(admit_steps)
    /\ LET a == attempts[k]
       IN IF admit_steps[a.at] = "set_status"
          THEN /\ reqStatus' = [reqStatus EXCEPT ![a.req] = "PROCESSING"]
               /\ UNCHANGED job
          ELSE /\ job' = [job EXCEPT ![a.req] =
                     [NoJob EXCEPT !.pc = "queued", !.user = a.user, !.offer = SkuMap[a.sku],
                                   !.sku = a.sku, !.qty = a.qty]]
               /\ UNCHANGED reqStatus
    /\ attempts' = [attempts EXCEPT ![k].at = @ + 1]
    /\ UNCHANGED <<stock, purchased, ledgerVars, lockVars, checkoutVars, activityVars, promoVars, adjustVars>>

AdmitStepsNext ==
    \/ \E u \in Users, q \in Qtys :
          AdmitScript(u, OfferInfo[1].sku_id, q, InWindow, Cardinality(SaleRequests))
    \/ \E k \in 1..MaxAttempts : AdmitStep(k)
    \/ \E r \in SaleRequests : JobTryAcquire(r)
    \/ \E r \in SaleRequests, found \in BOOLEAN : JobLoad(r, found)
    \/ \E r \in SaleRequests, fault \in BOOLEAN : JobTxn(r, fault)
    \/ \E r \in SaleRequests, ok \in BOOLEAN : JobStatus(r, ok)
    \/ \E r \in SaleRequests : JobCompensate(r)
    \/ \E r \in SaleRequests : JobFinally(r)

SpecAdmitSteps ==
    InitSeckill /\ [][AdmitStepsNext]_vars

\* an empty ledger; nothing else runs
InitLedger ==
    /\ inv = [it \in Items |-> NoItem]
    /\ txlog = <<>>
    /\ alerts = <<>>
    /\ lockKey = 0 /\ lapsed = 0 /\ xfer = 0 /\ ck = 0 /\ orders = 0 /\ cart = 0 /\ resp = 0
    /\ stock = 0 /\ purchased = 0 /\ attempts = 0 /\ job = 0 /\ reqStatus = 0
    /\ activity = 0 /\ preload = 0 /\ clock = 0
    /\ promotions = 0 /\ selected = 0 /\ adjusting = 0

SpecLedger ==
    InitLedger /\ [][LedgerNext]_vars

(***************************************************************************)
(* adjust_stock statement by statement, beside the other ledger requests.  *)
(* adjust_stock holds no lock and its SELECT is a plain read, so another   *)
(* request's transaction can commit between its SELECT and its UPDATE.     *)
(***************************************************************************)
NoAdjust == [pc |-> "idle", item |-> <<0, 0>>, new_quantity |-> 0, quantity |-> 0]

\* inventory_item = await _get_or_create_inventory_item(...): the row as loaded (the
\* row exists)
AdjustLoad(sku, wh, new_quantity) ==
    /\ adjusting.pc = "idle"
    /\ inv[<<sku, wh>>].exists
    /\ adjusting' = [pc |-> "loaded", item |-> <<sku, wh>>, new_quantity |-> new_quantity,
                     quantity |-> inv[<<sku, wh>>].quantity]
    /\ UNCHANGED <<ledgerVars, lockVars, checkoutVars, seckillVars, activityVars, promoVars>>

\* adjustment = new_quantity - inventory_item.quantity (the loaded value); UPDATE ...
\* SET quantity = new_quantity; the ADJUST transaction; the alert check; commit
AdjustWrite ==
    /\ adjusting.pc = "loaded"
    /\ Len(txlog) < MaxLog
    /\ LET it == adjusting.item
           adjustment == adjusting.new_quantity - adjusting.quantity
           r2 == [inv EXCEPT ![it].quantity = adjusting.new_quantity]
       IN /\ inv' = r2
          /\ txlog' = Append(txlog, Tx(it, "ADJUST", adjustment, NoRef, "inventory_adjustment"))
          /\ alerts' = alerts \o check_alert_threshold(r2, it)
    /\ adjusting' = NoAdjust
    /\ UNCHANGED <<lockVars, checkoutVars, seckillVars, activityVars, promoVars>>

\* one SKU stocked in warehouse 1; no adjustment running
InitAdjust ==
    /\ inv = [it \in Items |->
                IF it = <<1, 1>>
                THEN [exists |-> TRUE, quantity |-> InitStockQty, reserved |-> 0]
                ELSE NoItem]
    /\ txlog = <<Tx(<<1, 1>>, "STOCK_IN", InitStockQty, NoRef, "purchase")>>
    /\ alerts = <<>>
    /\ lockKey = 0 /\ lapsed = 0 /\ xfer = 0 /\ ck = 0 /\ orders = 0 /\ cart = 0 /\ resp = 0
    /\ stock = 0 /\ purchased = 0 /\ attempts = 0 /\ job = 0 /\ reqStatus = 0
    /\ activity = 0 /\ preload = 0 /\ clock = 0
    /\ promotions = 0 /\ selected = 0
    /\ adjusting = NoAdjust

AdjustNext ==
    \/ \E wh \in Warehouses, n \in 0..MaxQty : AdjustLoad(1, wh, n)
    \/ AdjustWrite
    \/ \E wh \in Warehouses : LedgerStockIn(1, wh, 1)
    \/ \E wh \in Warehouses : LedgerReserve(1, 1, SN(1), wh)
    \/ LedgerCommit(SN(1))
    \/ \E f \in Warehouses, t \in Warehouses : LedgerTransfer(1, f, t, 1)

SpecAdjust == InitAdjust /\ [][AdjustNext]_vars

(***************************************************************************)
(* Checkout and materializer side by side on the lock keyspace             *)
(* inventory:sku:<id>; no key expires.                                     *)
(***************************************************************************)
InitShared ==
    /\ inv = [it \in Items |->
                IF it[2] = 1
                THEN [exists |-> TRUE, quantity |-> seckill_stock + 1, reserved |-> 0]
                ELSE NoItem]
    /\ txlog = <<Tx(<<1, 1>>, "STOCK_IN", seckill_stock + 1, NoRef, "purchase"),
                 Tx(<<2, 1>>, "STOCK_IN", seckill_stock + 1, NoRef, "purchase")>>
    /\ alerts = <<>>
    /\ lockKey = [s \in Skus |-> NoToken]
    /\ lapsed = {}
    /\ xfer = [s \in Skus |-> "idle"]
    /\ ck = [p \in Procs |-> IdleCheckout]
    /\ orders = {}
    \* one checkout with any cart; the other user's cart is empty
    /\ cart \in {c \in [Procs -> Carts] : c[2] = <<>>}
    /\ resp = NoResp
    /\ stock = [o \in Offers |-> seckill_stock]
    /\ purchased = [u \in Users |-> [o \in Offers |-> 0]]
    /\ attempts = <<>>
    /\ job = [r \in ReqIds |-> NoJob]
    /\ reqStatus = [r \in ReqIds |-> "NONE"]
    /\ activity = 0 /\ preload = 0 /\ clock = 0
    /\ promotions = 0 /\ selected = 0 /\ adjusting = 0

SharedNext ==
    \/ \E p \in Procs : CkStart(p)
    \/ \E p \in Procs : CkTryAcquire(p)
    \/ \E p \in Procs : CkTxn(p)
    \/ \E p \in Procs : CkRelease(p)
    \/ Admit(1, OfferInfo[1].sku_id, 1, InWindow, Cardinality(SaleRequests))
    \/ \E r \in SaleRequests : JobTryAcquire(r)
    \/ \E r \in SaleRequests, found \in BOOLEAN : JobLoad(r, found)
    \/ \E r \in SaleRequests, fault \in BOOLEAN : JobTxn(r, fault)
    \/ \E r \in SaleRequests, ok \in BOOLEAN : JobStatus(r, ok)
    \/ \E r \in SaleRequests : JobCompensate(r)
    \/ \E r \in SaleRequests : JobFinally(r)

SpecShared == InitShared /\ [][SharedNext]_vars

(***************************************************************************)
(* Orders: checkouts by two users, then cancellations, payment             *)
(* notifications and sweeps on the orders they created.                    *)
(***************************************************************************)
OrderSns == {SN(p) : p \in Procs}
\* the amounts notified, in cents: each possible order total
NotifiedAmounts == {total_amount(c) : c \in Carts \ {<<>>}}

OrdersNext ==
    \/ \E p \in Procs : CkStart(p)
    \/ \E p \in Procs : CkTryAcquire(p)
    \/ \E p \in Procs : CkTxn(p)
    \/ \E p \in Procs : CkRelease(p)
    \/ \E sn \in OrderSns, u \in Procs : Cancel(sn, u)
    \/ \E sn \in OrderSns, cents \in NotifiedAmounts : PayNotify(sn, cents)
    \/ \E S \in SUBSET OrderSns : Sweep(S)

SpecOrders == InitCheckout /\ [][OrdersNext]_vars

\* the orders a sweep finds when every order awaiting payment is past the timeout
PendingSns == {o.sn : o \in {x \in orders : x.status = "PENDING_PAYMENT"}}

\* as InitCheckout, with only the first user's cart filled
InitOneOrder ==
    /\ inv = StockedRows
    /\ txlog = StockedLog
    /\ alerts = <<>>
    /\ lockKey = [s \in Skus |-> NoToken]
    /\ lapsed = {}
    /\ xfer = [s \in Skus |-> "idle"]
    /\ ck = [p \in Procs |-> IdleCheckout]
    /\ orders = {}
    /\ cart \in {c \in [Procs -> Carts] : c[1] # <<>> /\ c[2] = <<>>}
    /\ resp = NoResp
    /\ stock = 0 /\ purchased = 0 /\ attempts = 0 /\ job = 0 /\ reqStatus = 0
    /\ activity = 0 /\ preload = 0 /\ clock = 0
    /\ promotions = 0 /\ selected = 0 /\ adjusting = 0

\* every checkout runs to its end and the beat schedule keeps starting the sweep,
\* which finds every order still awaiting payment overdue; cancellations by users and
\* payment notifications may or may not come
SpecOrdersLive ==
    /\ InitOneOrder /\ [][OrdersNext]_vars
    /\ \A p \in Procs : WF_vars(CkStep(p))
    /\ WF_vars(Sweep(PendingSns))

\* one activity just created, not preloaded; nothing else runs
InitActivity ==
    /\ inv = 0 /\ txlog = 0 /\ alerts = 0
    /\ lockKey = 0 /\ lapsed = 0 /\ xfer = 0 /\ ck = 0 /\ orders = 0 /\ cart = 0 /\ resp = 0
    /\ stock = 0 /\ purchased = 0 /\ attempts = 0 /\ job = 0 /\ reqStatus = 0
    /\ \E s \in 1..MaxTime - 1 : \E e \in s + 1..MaxTime : activity = NewActivity(s, e)
    /\ preload = NotLoaded
    /\ clock = 0
    /\ promotions = 0 /\ selected = 0 /\ adjusting = 0

ActivityNext ==
    \/ ClockTick
    \/ PreloadEval
    \/ PreloadCommit
    \/ StatusSweep
    \/ \E st \in ActivityStatuses : UpdateActivity("status", st)
    \/ \E t \in 0..MaxTime : UpdateActivity("start_time", t)
    \/ \E t \in 0..MaxTime : UpdateActivity("end_time", t)

(***************************************************************************)
(* load_activity_to_redis statement by statement: two requests to preload  *)
(* the one activity, the preload lock seckill:preload:<id> with its TTL,   *)
(* a commit that can fail, and admissions once the keys are loaded.        *)
(***************************************************************************)
Loaders == {1, 2}
NoLoader == 0
\* no key loaded, no request running, the preload lock free
NothingLoaded == [keys |-> FALSE, pc |-> [p \in Loaders |-> "idle"], lock |-> NoLoader]

\* lock.acquire(): SET NX of the preload lock (a request that does not get it answers
\* 409 and changes nothing)
LoadAcquire(p) ==
    /\ preload.pc[p] = "idle"
    /\ preload.lock = NoLoader
    /\ preload' = [preload EXCEPT !.lock = p, !.pc[p] = "check"]
    /\ UNCHANGED <<ledgerVars, lockVars, checkoutVars, seckillVars, promoVars, adjustVars,
                   activity, clock>>

\* get_activity and the status check: anything but PENDING raises 400
LoadCheck(p) ==
    /\ preload.pc[p] = "check"
    /\ preload' = [preload EXCEPT !.pc[p] =
                      IF activity.status = "PENDING" THEN "script" ELSE "release"]
    /\ UNCHANGED <<ledgerVars, lockVars, checkoutVars, seckillVars, promoVars, adjustVars,
                   activity, clock>>

\* the Lua script: the old keys deleted, then for each product SET seckill:stock:<id>
\* to its seckill_stock, the metadata hash and the SKU map written
LoadScript(p) ==
    /\ preload.pc[p] = "script"
    /\ stock' = [o \in Offers |-> seckill_stock]
    /\ preload' = [preload EXCEPT !.keys = TRUE, !.pc[p] = "commit"]
    /\ UNCHANGED <<ledgerVars, lockVars, checkoutVars, purchased, attempts, job, reqStatus,
                   promoVars, adjustVars, activity, clock>>

\* db_activity.status = ACTIVE; db.commit(), which succeeds or raises
LoadCommit(p, ok) ==
    /\ preload.pc[p] = "commit"
    /\ activity' = IF ok THEN [activity EXCEPT !.status = "ACTIVE"] ELSE activity
    /\ preload' = [preload EXCEPT !.pc[p] = "release"]
    /\ UNCHANGED <<ledgerVars, lockVars, checkoutVars, seckillVars, promoVars, adjustVars,
                   clock>>

\* finally: lock.release(), which deletes the key only while it holds the caller's token
LoadRelease(p) ==
    /\ preload.pc[p] = "release"
    /\ preload' = [preload EXCEPT !.pc[p] = "idle",
                                  !.lock = IF @ = p THEN NoLoader ELSE @]
    /\ UNCHANGED <<ledgerVars, lockVars, checkoutVars, seckillVars, promoVars, adjustVars,
                   activity, clock>>

\* the preload lock's TTL (expire_seconds = 10) runs out while its holder is at work
LoadLockExpire ==
    /\ preload.lock # NoLoader
    /\ preload' = [preload EXCEPT !.lock = NoLoader]
    /\ UNCHANGED <<ledgerVars, lockVars, checkoutVars, seckillVars, promoVars, adjustVars,
                   activity, clock>>

\* create_seckill_order at the time now, once the SKU map and the offer's keys exist
LoadedAdmit(user) ==
    /\ preload.keys
    /\ Admit(user, OfferInfo[1].sku_id, 1, clock, MaxAttempts)

\* the activity created with the window the offers carry; nothing loaded
InitPreload ==
    /\ inv = 0 /\ txlog = 0 /\ alerts = 0
    /\ lockKey = 0 /\ lapsed = 0 /\ xfer = 0 /\ ck = 0 /\ orders = 0 /\ cart = 0 /\ resp = 0
    /\ stock = [o \in Offers |-> 0]
    /\ purchased = [u \in Users |-> [o \in Offers |-> 0]]
    /\ attempts = <<>>
    /\ job = [r \in ReqIds |-> NoJob]
    /\ reqStatus = [r \in ReqIds |-> "NONE"]
    /\ activity = NewActivity(OfferInfo[1].start_time, OfferInfo[1].end_time)
    /\ preload = NothingLoaded
    /\ clock = 0
    /\ promotions = 0 /\ selected = 0 /\ adjusting = 0

PreloadNext ==
    \/ ClockTick
    \/ StatusSweep
    \/ \E p \in Loaders : LoadAcquire(p)
    \/ \E p \in Loaders : LoadCheck(p)
    \/ \E p \in Loaders : LoadScript(p)
    \/ \E p \in Loaders, ok \in BOOLEAN : LoadCommit(p, ok)
    \/ \E p \in Loaders : LoadRelease(p)
    \/ LoadLockExpire
    \/ \E u \in Users : LoadedAdmit(u)

SpecPreload == InitPreload /\ [][PreloadNext]_vars

SpecActivity ==
    InitActivity /\ [][ActivityNext]_vars

(***************************************************************************)
(* Promotion selector: OrderService._calculate_best_promotion,             *)
(* app/services/order_service.py.  Amounts are in cents (Numeric(10, 2)    *)
(* columns); a discount is counted in hundredths of a cent, so that the    *)
(* exact Decimal product of an amount and a percentage is an integer.      *)
(***************************************************************************)
MaxPromotions == 2
\* Decimal('100.0') of discount_percentage = action_value / Decimal('100.0')
percent_base == 100

\* the catalogue: SKU.product_id, Product.category_id, Product.tags
SkuProduct == [s \in Skus |-> s]
ProductCategory == [p \in {1, 2} |-> p]
ProductTags == [p \in {1, 2} |-> IF p = 1 THEN {1} ELSE {1, 2}]

\* the cart_items the selector is given: one or two lines, quantities 1..MaxQty
PromoCarts ==
    {<<Line(s, q)>> : s \in Skus, q \in 1..MaxQty}
        \cup {<<Line(1, q1), Line(2, q2)>> : q1 \in 1..MaxQty, q2 \in 1..MaxQty}

\* a Promotion row
Promotion(is_active, start_time, end_time, target_type, target_ids, condition_type, condition_value, action_type, action_value) ==
    [is_active |-> is_active, start_time |-> start_time, end_time |-> end_time,
     target_type |-> target_type, target_ids |-> target_ids,
     condition_type |-> condition_type, condition_value |-> condition_value,
     action_type |-> action_type, action_value |-> action_value]

\* the rows POST /promotions is given here (PromotionCreate): amounts in cents,
\* percentages and counts as they are
PromotionRows ==
    { Promotion(TRUE, 1, 2, "ALL", {}, "NO_THRESHOLD", 0, "FIXED", 50),
      Promotion(TRUE, 1, 2, "ALL", {}, "MIN_AMOUNT", 200, "FIXED", 30),
      Promotion(TRUE, 1, 2, "ALL", {}, "MIN_QUANTITY", 1, "FIXED", 30),
      Promotion(TRUE, 1, 2, "PRODUCT", {1}, "MIN_QUANTITY", 2, "PERCENTAGE", 50),
      Promotion(TRUE, 1, 2, "CATEGORY", {2}, "MIN_AMOUNT", 100, "FIXED", 500),
      Promotion(TRUE, 1, 2, "TAG", {2}, "MIN_QUANTITY", 1, "PERCENTAGE", 10),
      Promotion(TRUE, 1, 2, "ALL", {}, "MIN_QUANTITY", 2,
                "SINGLE_PRODUCT_BUY_N_GET_M_FREE", 1),
      Promotion(TRUE, 1, 2, "PRODUCT", {3}, "MIN_QUANTITY", 1, "FIXED", 500),
      Promotion(FALSE, 1, 2, "ALL", {}, "MIN_QUANTITY", 1, "FIXED", 500),
      Promotion(TRUE, 2, 2, "ALL", {}, "MIN_QUANTITY", 1, "FIXED", 400) }

\* the instants at which the selector runs
PromoTimes == {1, 2}

\* 1. the cart items in the promotion's target scope
applicable_items(promo, cart_items) ==
    IF promo.target_type = "ALL" THEN cart_items
    ELSE IF promo.target_type = "PRODUCT"
    THEN SelectSeq(cart_items, LAMBDA item : SkuProduct[item.sku] \in promo.target_ids)
    ELSE IF promo.target_type = "CATEGORY"
    THEN SelectSeq(cart_items,
                   LAMBDA item : ProductCategory[SkuProduct[item.sku]] \in promo.target_ids)
    ELSE IF promo.target_type = "TAG"
    THEN SelectSeq(cart_items,
                   LAMBDA item : \E tag \in ProductTags[SkuProduct[item.sku]] :
                                     tag \in promo.target_ids)
    ELSE <<>>

\* sum(item.price * item.quantity), in cents; CartItem.price is the SKU's price
RECURSIVE promo_base_amount(_)
promo_base_amount(items) ==
    IF items = <<>> THEN 0
    ELSE SkuPrice[Head(items).sku] * Head(items).qty + promo_base_amount(Tail(items))

\* sum(item.quantity)
RECURSIVE promo_base_quantity(_)
promo_base_quantity(items) ==
    IF items = <<>> THEN 0
    ELSE Head(items).qty + promo_base_quantity(Tail(items))

Min(a, b) == IF a <= b THEN a ELSE b

\* condition_met of a FIXED or PERCENTAGE promotion: set only in the MIN_AMOUNT and
\* MIN_QUANTITY branches
condition_met(promo, items) ==
    IF promo.condition_type = "MIN_AMOUNT"
    THEN promo_base_amount(items) >= promo.condition_value
    ELSE IF promo.condition_type = "MIN_QUANTITY"
    THEN promo_base_quantity(items) >= promo.condition_value
    ELSE FALSE

\* total_item_discount of SINGLE_PRODUCT_BUY_N_GET_M_FREE: per item with
\* quantity >= condition_value, price * min(quantity // condition_value * M, quantity)
RECURSIVE total_item_discount(_, _)
total_item_discount(promo, items) ==
    IF items = <<>> THEN 0
    ELSE LET item == Head(items)
             num_eligible_sets == item.qty \div promo.condition_value
             num_free_items == Min(num_eligible_sets * promo.action_value, item.qty)
             item_discount == IF item.qty >= promo.condition_value
                              THEN SkuPrice[item.sku] * num_free_items * percent_base
                              ELSE 0
         IN item_discount + total_item_discount(promo, Tail(items))

\* 2. and 3.: current_discount of a promotion on its applicable items, after
\* min(current_discount, promo_base_amount)
current_discount(promo, items) ==
    LET d == IF promo.action_type \in {"FIXED", "PERCENTAGE"}
             THEN IF ~condition_met(promo, items) THEN 0
                  ELSE IF promo.action_type = "FIXED"
                  THEN promo.action_value * percent_base
                  ELSE promo_base_amount(items) * promo.action_value
             ELSE IF promo.action_type = "SINGLE_PRODUCT_BUY_N_GET_M_FREE"
             THEN IF promo.condition_type = "MIN_QUANTITY" /\ promo.action_value >= 1
                  THEN total_item_discount(promo, items)
                  ELSE 0
             ELSE 0
    IN Min(d, promo_base_amount(items) * percent_base)

\* no promotion (None)
NoPromotion == 0

\* the rows of the query: is_active, start_time <= now, end_time >= now
active_promotions(rows, now) ==
    {id \in DOMAIN rows : /\ rows[id].is_active
                          /\ rows[id].start_time <= now
                          /\ rows[id].end_time >= now}

\* the loop over the active promotions by id descending: a promotion without
\* applicable items is skipped; a discount strictly above max_discount replaces the best
RECURSIVE best_of(_, _, _, _, _)
best_of(rows, ids, cart_items, best_promotion, max_discount) ==
    IF ids = {} THEN [promo |-> best_promotion, discount |-> max_discount]
    ELSE LET id == CHOOSE x \in ids : \A y \in ids : y <= x
             items == applicable_items(rows[id], cart_items)
             d == current_discount(rows[id], items)
         IN IF items # <<>> /\ d > max_discount
            THEN best_of(rows, ids \ {id}, cart_items, id, d)
            ELSE best_of(rows, ids \ {id}, cart_items, best_promotion, max_discount)

calculate_best_promotion(rows, cart_items, now) ==
    best_of(rows, active_promotions(rows, now), cart_items, NoPromotion, 0)

NoSelection == [rows |-> <<>>, items |-> <<>>, now |-> 0, promo |-> NoPromotion, discount |-> 0]

\* POST /promotions: a new row with the next id
CreatePromotion(row) ==
    /\ Len(promotions) < MaxPromotions
    /\ promotions' = Append(promotions, row)
    /\ UNCHANGED <<selected, ledgerVars, lockVars, checkoutVars, seckillVars, activityVars, adjustVars>>

\* a checkout runs the selector on its cart items at some instant
SelectPromotion(cart_items, now) ==
    /\ LET best == calculate_best_promotion(promotions, cart_items, now)
       IN selected' = [rows |-> promotions, items |-> cart_items, now |-> now,
                       promo |-> best.promo, discount |-> best.discount]
    /\ UNCHANGED <<promotions, ledgerVars, lockVars, checkoutVars, seckillVars, activityVars, adjustVars>>

InitPromotion ==
    /\ inv = 0 /\ txlog = 0 /\ alerts = 0
    /\ lockKey = 0 /\ lapsed = 0 /\ xfer = 0 /\ ck = 0 /\ orders = 0 /\ cart = 0 /\ resp = 0
    /\ stock = 0 /\ purchased = 0 /\ attempts = 0 /\ job = 0 /\ reqStatus = 0
    /\ activity = 0 /\ preload = 0 /\ clock = 0
    /\ promotions = <<>>
    /\ selected = NoSelection
    /\ adjusting = 0

PromotionNext ==
    \/ \E row \in PromotionRows : CreatePromotion(row)
    \/ \E c \in PromoCarts, now \in PromoTimes : SelectPromotion(c, now)

SpecPromotion ==
    InitPromotion /\ [][PromotionNext]_vars

(***************************************************************************)
(* Claims                                                                  *)
(***************************************************************************)

\* C3: every StockItem keeps 0 <= reserved <= quantity under any sequence of
\* stock-in, reserve, release, confirm, adjust and transfer.
LedgerBounds ==
    \A it \in Items : 0 <= inv[it].reserved /\ inv[it].reserved <= inv[it].quantity

ReleaseTxs(log) == SelectSeq(log, LAMBDA t : t.type = "RELEASE")

\* C7: release is idempotent: a second release of the same reference id (same
\* original reference types) leaves every StockItem and the RELEASE transactions as
\* the first release left them.
ReleaseIdempotent ==
    \A ref \in LedgerRefs, ts \in ReleaseTypeSets :
        LET once == release_reserved_stock(inv, txlog, ref, ts, "order_cancellation")
            twice == release_reserved_stock(once.inv, once.log, ref, ts, "order_cancellation")
        IN /\ twice.inv = once.inv
           /\ ReleaseTxs(twice.log) = ReleaseTxs(once.log)

Wanted(p) == LockOrder(ck[p].items)[ck[p].idx].sku
Acquired(p) == {ck[p].locks[k] : k \in 1..Len(ck[p].locks)}

\* two checkouts, each having acquired a lock the other is asking for
CircularWait ==
    \E p \in Procs : \E q \in Procs \ {p} :
        /\ ck[p].pc = "acquire" /\ ck[q].pc = "acquire"
        /\ Wanted(p) \in Acquired(q)
        /\ Wanted(q) \in Acquired(p)

\* C8: two concurrent checkouts over overlapping SKU sets never reach a circular
\* wait, and each terminates (with an order or an error).
DeadlockFreedom ==
    /\ [](~CircularWait)
    /\ <>(\A p \in Procs : ck[p].pc = "done")

\* two checkouts of two lines each, one holding SKU 1's lock and asking for SKU 2's
\* while the other is retrying SKU 1's
DeadlockFreedomWitness ==
    \E p \in Procs : \E q \in Procs \ {p} :
        /\ Len(ck[p].items) = 2 /\ Len(ck[q].items) = 2
        /\ ck[p].items # ck[q].items
        /\ ck[p].pc = "acquire" /\ ck[p].locks = <<1>>
        /\ ck[q].pc = "acquire" /\ ck[q].locks = <<>> /\ ck[q].i = retry_times

\* a lock object that acquired its key, has not released it and whose key has not expired
HoldsUnexpired(p, s) == s \in ck[p].locked /\ Token("ck", p, s) \notin lapsed

\* the step of checkout p that runs release() on the lock of SKU s
ReleaseOf(p, s) ==
    /\ ck[p].pc = "release"
    /\ ck[p].locks[ck[p].rel] = s
    /\ ck'[p].rel = ck[p].rel + 1

\* C10: release() deletes the key only when it holds the releaser's own token; on a
\* key that expired and was acquired by another process it returns False and leaves
\* that process's key in place.
ReleaseOwnership ==
    /\ [](\A p \in Procs, s \in Skus : HoldsUnexpired(p, s) => lockKey[s] = Token("ck", p, s))
    /\ [][\A p \in Procs, s \in Skus :
            ReleaseOf(p, s) =>
                IF lockKey[s] = Token("ck", p, s)
                THEN lockKey'[s] = NoToken /\ s \notin ck'[p].locked
                ELSE lockKey'[s] = lockKey[s] /\ s \in ck'[p].relFalse]_vars

\* checkout p's release() returned False while q's token is in the key
ReleaseOwnershipWitness ==
    \E p \in Procs : \E q \in Procs \ {p} : \E s \in Skus :
        /\ s \in ck[p].relFalse
        /\ Token("ck", p, s) \in lapsed
        /\ lockKey[s] = Token("ck", q, s)

(***************************************************************************)
(* Flash-sale admission claims                                             *)
(***************************************************************************)
RECURSIVE CountCode(_, _)
CountCode(log, code) ==
    IF log = <<>> THEN 0
    ELSE (IF Head(log).code = code THEN 1 ELSE 0) + CountCode(Tail(log), code)

RECURSIVE SumAdmitted(_, _, _)
SumAdmitted(log, user, o) ==
    IF log = <<>> THEN 0
    ELSE (IF Head(log).code = 1 /\ Head(log).user = user /\ SkuMap[Head(log).sku] = o
          THEN Head(log).qty ELSE 0) + SumAdmitted(Tail(log), user, o)

\* N > S attempts of quantity 1 by N distinct users on the offer inside its window
MoreBuyersThanStock ==
    /\ Len(attempts) > seckill_stock
    /\ \A k \in 1..Len(attempts) :
          /\ attempts[k].qty = 1
          /\ attempts[k].sku = OfferInfo[1].sku_id
          /\ attempts[k].now = InWindow
          /\ \A j \in 1..Len(attempts) : j # k => attempts[j].user # attempts[k].user

\* C1: admission no-oversell.  The offer's stock counter is never negative, and when
\* N > S attempts of quantity 1 from N distinct users have run inside the window against
\* an offer preloaded with stock S (limit >= 1), exactly S returned success, the other
\* N - S returned -4 and the counter is exactly 0.
AdmissionNoOversell ==
    /\ \A o \in Offers : stock[o] >= 0
    /\ MoreBuyersThanStock =>
          /\ CountCode(attempts, 1) = seckill_stock
          /\ CountCode(attempts, -4) = Len(attempts) - seckill_stock
          /\ stock[1] = 0

AdmissionNoOversellWitness ==
    /\ MoreBuyersThanStock
    /\ CountCode(attempts, -4) >= 1
    /\ CountCode(attempts, 1) = seckill_stock

\* the attempt an admission step has just logged
LastAttempt == attempts'[Len(attempts')]

RECURSIVE OrderedQty(_)
OrderedQty(os) ==
    IF os = {} THEN 0
    ELSE LET o == CHOOSE x \in os : TRUE
         IN o.lines[1].qty + OrderedQty(os \ {o})

SeckillOrders(o) ==
    {x \in orders : x.src = "seckill" /\ x.lines[1].sku = OfferInfo[o].sku_id}

\* C2: end-to-end no-oversell.  For every offer the quantities of the orders the
\* materializer has created never add up to more than the sale stock preload wrote.
EndToEndNoOversell ==
    \A o \in Offers : OrderedQty(SeckillOrders(o)) <= seckill_stock

\* the job of request r has stopped with every attempt failed and no order committed
FailedEveryAttempt(r) ==
    /\ job[r].pc = "dead"
    /\ job[r].fails = job[r].runs
    /\ \A n \in 1..job[r].runs : \A x \in orders : x.sn # SKSN(r, n)

\* C4: compensation exactness.  When the one admitted request has failed on every
\* attempt (the first run plus up to 3 retries) and no other request touched the offer,
\* the stock counter and the user's purchase count equal their values just before the
\* admission: seckill_stock and 0.
CompensationExact ==
    \A r \in SaleRequests :
        Len(attempts) = 1 /\ FailedEveryAttempt(r) =>
            /\ stock[job[r].offer] = seckill_stock
            /\ purchased[job[r].user][job[r].offer] = 0

\* C5: no admitted stock is lost.  Every failed attempt of an admitted request, at
\* whichever step it failed, has run the compensation script once the attempt is over;
\* and a request that ended FAILED does not leave the stock counter below its value
\* just before the admission.
NoAdmittedStockLost ==
    \A r \in SaleRequests :
        /\ job[r].pc \in {"queued", "dead"} => job[r].comps = job[r].fails
        /\ Len(attempts) = 1 /\ reqStatus[r] = "FAILED" =>
              stock[job[r].offer] >= seckill_stock

CheckoutJobExclusion ==
    \A p \in Procs : \A r \in ReqIds :
        ~(job[r].locked /\ job[r].sku \in ck[p].locked)

\* one of the two holds the SKU's lock and the other has been refused it at least once
CheckoutJobExclusionWitness ==
    \E p \in Procs : \E r \in ReqIds :
        \/ /\ job[r].locked
           /\ ck[p].pc = "acquire" /\ ck[p].i >= 1
           /\ LockOrder(ck[p].items)[ck[p].idx].sku = job[r].sku
        \/ /\ job[r].sku \in ck[p].locked /\ ck[p].pc = "txn"
           /\ job[r].pc = "acquire" /\ job[r].i >= 1

RowChanged(sku) == \E wh \in Warehouses : inv'[<<sku, wh>>] # inv[<<sku, wh>>]

\* the process taking the step holds the lock of the SKU: a checkout does, between
\* its acquire and its release; cancellation, payment notification and sweep never
\* ask for a lock
ActorHoldsLock(sku) ==
    \E p \in Procs :
        ck'[p] # ck[p] /\ sku \in ck[p].locked /\ lockKey[sku] = Token("ck", p, sku)

\* C12: per-SKU serialization of every ledger mutation.  Every step that changes a
\* StockItem of a SKU (reserve by checkout, release by cancellation, confirm by a
\* payment notification) is taken by a process that holds that SKU's lock.
LedgerChangeUnderLock ==
    [][\A sku \in Skus : RowChanged(sku) => ActorHoldsLock(sku)]_vars

ReservesOf(sn) ==
    SelectSeq(txlog, LAMBDA t : t.type = "RESERVE" /\ t.ref = sn)
OutsOf(sn, item, qty) ==
    SelectSeq(txlog, LAMBDA t : t.type = "STOCK_OUT" /\ t.ref = sn /\ t.item = item
                                  /\ t.qty = qty)
RECURSIVE SumQty(_)
SumQty(log) == IF log = <<>> THEN 0 ELSE Head(log).qty + SumQty(Tail(log))

\* the RESERVE quantities on an item of the orders still awaiting payment
PendingReserved(item) ==
    SumQty(SelectSeq(txlog, LAMBDA t :
        /\ t.type = "RESERVE" /\ t.item = item
        /\ \E o \in orders : o.sn = t.ref /\ o.status = "PENDING_PAYMENT"))
ConfirmedOut(item) ==
    SumQty(SelectSeq(txlog, LAMBDA t : t.type = "STOCK_OUT" /\ t.item = item))

\* C13: reserve then confirm.  For an order created by checkout: once a payment
\* notification has confirmed it, each of its RESERVE transactions has exactly one OUT
\* transaction of the same quantity tagged with the order number (and none before);
\* each StockItem's quantity is its initial quantity less the OUT quantities, and its
\* reserved counts only the orders still awaiting payment, so the confirmed order's
\* reservation is gone from it.
ReserveThenConfirm ==
    /\ \A o \in orders : \A k \in 1..Len(ReservesOf(o.sn)) :
          LET t == ReservesOf(o.sn)[k]
          IN Len(OutsOf(o.sn, t.item, t.qty)) = IF o.status = "PROCESSING" THEN 1 ELSE 0
    /\ \A it \in Items :
          inv[it].exists =>
              /\ inv[it].quantity = InitStockQty - ConfirmedOut(it)
              /\ inv[it].reserved = PendingReserved(it)

\* a two-line order was confirmed
ReserveThenConfirmWitness ==
    \E o \in orders :
        /\ o.status = "PROCESSING"
        /\ Len(ReservesOf(o.sn)) = 2
        /\ \A k \in 1..Len(ReservesOf(o.sn)) :
              Len(OutsOf(o.sn, ReservesOf(o.sn)[k].item, ReservesOf(o.sn)[k].qty)) = 1

\* a step of a request handler (no checkout moves): the handler named `op` answered
\* for the order number `sn`
HandlerStep(op, sn) ==
    /\ resp'.op = op /\ resp'.sn = sn
    /\ UNCHANGED <<ck, cart, lockVars>>
HasStatus(os, sn, status) == \E o \in os : o.sn = sn /\ o.status = status
ReservedFor(sn, item) ==
    SumQty(SelectSeq(txlog, LAMBDA t : t.type = "RESERVE" /\ t.ref = sn /\ t.item = item))
ReleasesIn(log, sn, item, qty) ==
    SelectSeq(log, LAMBDA t : t.type = "RELEASE" /\ t.ref = sn /\ t.item = item
                                /\ t.qty = qty)

\* C14: reserve then cancel.  A cancellation of an order that awaits payment, asked by
\* its owner, succeeds: the order becomes CANCELLED, every StockItem keeps its
\* quantity, its reserved drops by what the order had reserved on it, and the log
\* gains one RELEASE per RESERVE of the order, same quantity and order number.
ReserveThenCancel ==
    [][\A sn \in OrderSns :
          (/\ HandlerStep("cancel", sn) /\ resp'.note # "not_found"
           /\ HasStatus(orders, sn, "PENDING_PAYMENT"))
          => /\ resp'.ret = "order"
             /\ HasStatus(orders', sn, "CANCELLED")
             /\ \A it \in Items :
                   /\ inv'[it].quantity = inv[it].quantity
                   /\ inv'[it].reserved = inv[it].reserved - ReservedFor(sn, it)
             /\ \A k \in 1..Len(ReservesOf(sn)) :
                   Len(ReleasesIn(txlog', sn, ReservesOf(sn)[k].item,
                                  ReservesOf(sn)[k].qty)) = 1]_vars

OrderStatuses == {"PENDING_PAYMENT", "PROCESSING", "CANCELLED"}

\* C15: order state machine.  An order appears in PENDING_PAYMENT; it is never
\* removed; a status changes only from PENDING_PAYMENT, to PROCESSING in a payment
\* notification's step or to CANCELLED in a cancellation's or a sweep's step; an order
\* that is PROCESSING or CANCELLED keeps its status.
OrderStateMachine ==
    [][/\ \A o \in orders' :
             /\ o.status \in OrderStatuses
             /\ (\A q \in orders : q.sn # o.sn) => o.status = "PENDING_PAYMENT"
       /\ \A q \in orders : \E o \in orders' :
             /\ o.sn = q.sn
             /\ \/ o.status = q.status
                \/ /\ q.status = "PENDING_PAYMENT" /\ o.status = "PROCESSING"
                   /\ HandlerStep("pay", q.sn)
                \/ /\ q.status = "PENDING_PAYMENT" /\ o.status = "CANCELLED"
                   /\ (HandlerStep("cancel", q.sn) \/ HandlerStep("sweep", NoRef))]_vars

\* an order in PROCESSING on which a later cancellation or notification answered
OrderStateMachineWitness ==
    /\ resp.note \in {"status", "already_processed"}
    /\ HasStatus(orders, resp.sn, "PROCESSING")
    /\ \A p \in Procs : ck[p].pc = "done"

\* C16: cancellation is rejected outside PENDING_PAYMENT.  cancel_order on an order
\* whose status is not PENDING_PAYMENT raises its ValueError and leaves every order,
\* every StockItem and the transaction log as they were.
CancelRejected ==
    [][\A sn \in OrderSns :
          (/\ HandlerStep("cancel", sn) /\ resp'.note # "not_found"
           /\ ~HasStatus(orders, sn, "PENDING_PAYMENT"))
          => /\ resp'.ret = "ValueError" /\ resp'.note = "status"
             /\ UNCHANGED <<orders, ledgerVars>>]_vars

\* a cancellation of a paid order was answered with the status error
CancelRejectedWitness ==
    /\ resp.op = "cancel" /\ resp.ret = "ValueError" /\ resp.note = "status"
    /\ HasStatus(orders, resp.sn, "PROCESSING")

\* C17: payment confirmation is idempotent.  A notification for an order whose status
\* is not PENDING_PAYMENT returns success and changes no order, StockItem or
\* transaction; so however often a valid notification is delivered, the confirmed
\* order's RESERVE transactions each keep exactly one OUT transaction.
PaymentIdempotent ==
    [][\A sn \in OrderSns :
          /\ (/\ HandlerStep("pay", sn)
              /\ \E o \in orders : o.sn = sn /\ o.status # "PENDING_PAYMENT")
             => /\ resp'.ret = "True"
                /\ UNCHANGED <<orders, ledgerVars>>
          /\ HasStatus(orders', sn, "PROCESSING")
             => \A it \in Items :
                   Len(SelectSeq(txlog', LAMBDA t : t.type = "STOCK_OUT" /\ t.ref = sn
                                                     /\ t.item = it))
                   = Len(SelectSeq(txlog', LAMBDA t : t.type = "RESERVE" /\ t.ref = sn
                                                       /\ t.item = it))]_vars

\* the notification that confirmed an order was delivered again
PaymentIdempotentWitness ==
    /\ resp.op = "pay" /\ resp.ret = "True" /\ resp.note = "already_processed"
    /\ HasStatus(orders, resp.sn, "PROCESSING")
    /\ \E o \in orders : o.sn = resp.sn /\ o.pay_amount = resp.n

\* C18: payment amount mismatch is a no-op success.  A notification whose amount
\* differs from the pay_amount of an order awaiting payment returns success; the
\* order (its status, its payment method) and every other order, every StockItem and
\* the transaction log stay as they were.
AmountMismatchNoOp ==
    [][\A sn \in OrderSns :
          (/\ HandlerStep("pay", sn)
           /\ \E o \in orders : /\ o.sn = sn /\ o.status = "PENDING_PAYMENT"
                                /\ o.pay_amount # resp'.n)
          => /\ resp'.ret = "True"
             /\ UNCHANGED <<orders, ledgerVars>>
             /\ \E o \in orders' : /\ o.sn = sn /\ o.status = "PENDING_PAYMENT"
                                   /\ o.payment_method = "none"]_vars

\* a notification of another amount was answered for an order that awaits payment and
\* holds a reservation
AmountMismatchNoOpWitness ==
    /\ resp.op = "pay" /\ resp.ret = "True" /\ resp.note = "amount_mismatch"
    /\ \E o \in orders : /\ o.sn = resp.sn /\ o.status = "PENDING_PAYMENT"
                         /\ o.pay_amount # resp.n
                         /\ Len(ReservesOf(o.sn)) >= 1

(***************************************************************************)
(* Checkout's failure paths                                                *)
(***************************************************************************)
ReservedBy(item) ==
    SumQty(SelectSeq(txlog, LAMBDA t : t.type = "RESERVE" /\ t.item = item))

\* C19: checkout is all-or-nothing.  Once a checkout has failed (a reserve raised
\* InsufficientStock, a lock was not acquired, the cart was empty): no transaction
\* carries its order number, so every StockItem's reserved counts only the
\* reservations of other checkouts; no order has its number; its cart holds the lines
\* it was loaded with.
CheckoutAllOrNothing ==
    \A p \in Procs :
        ck[p].result = "error" =>
            /\ \A k \in 1..Len(txlog) : txlog[k].ref # SN(p)
            /\ \A it \in Items : inv[it].exists => inv[it].reserved = ReservedBy(it)
            /\ \A o \in orders : o.sn # SN(p)
            /\ cart[p] = ck[p].items

\* a checkout of two lines held both locks and failed on its second line, whose stock
\* another checkout had reserved, while its first line could be reserved
CheckoutAllOrNothingWitness ==
    \E p \in Procs : \E q \in Procs \ {p} :
        /\ ck[p].result = "error" /\ ck[p].pc = "done"
        /\ Len(ck[p].items) = 2 /\ Len(ck[p].locks) = 2
        /\ \E o \in orders : o.sn = SN(q) /\ o.lines = <<ck[p].items[2]>>

\* C20: checkout always releases its locks.  After a checkout has ended (order
\* created, InsufficientStock, a lock not acquired after others were, empty cart), no
\* lock key holds a token that this checkout set.
CheckoutReleasesLocks ==
    \A p \in Procs :
        ck[p].pc = "done" => \A s \in Skus : lockKey[s] # Token("ck", p, s)

\* a checkout has ended for want of its second lock after it had taken its first
CheckoutReleasesLocksWitness ==
    \E p \in Procs :
        /\ ck[p].pc = "done" /\ ck[p].result = "error"
        /\ Len(ck[p].items) = 2 /\ Len(ck[p].locks) = 1
        /\ ck[p].relFalse = {}

(***************************************************************************)
(* Ledger claims                                                           *)
(***************************************************************************)
TypeSum(item, type) ==
    SumQty(SelectSeq(txlog, LAMBDA t : t.type = type /\ t.item = item))

\* C21: reserved matches the log.  For every StockItem, reserved is the sum of its
\* RESERVE quantities minus the sum of its RELEASE quantities minus the sum of its
\* OUT quantities, after any sequence of ledger operations.
ReservedMatchesLog ==
    \A it \in Items :
        inv[it].reserved
            = TypeSum(it, "RESERVE") - TypeSum(it, "RELEASE") - TypeSum(it, "STOCK_OUT")

\* an item was reserved and then released or confirmed
ReservedMatchesLogWitness ==
    \E it \in Items :
        /\ TypeSum(it, "RESERVE") > 0
        /\ TypeSum(it, "RELEASE") + TypeSum(it, "STOCK_OUT") > 0

Available(it) == inv[it].quantity - inv[it].reserved
\* the rows of a SKU that can take the whole quantity alone
Sufficient(sku, q) == {it \in Items : it[1] = sku /\ inv[it].exists /\ Available(it) >= q}

\* C22: single-warehouse reservation.  In every state of the ledger, a reserve of q of
\* a SKU without a warehouse takes q from the row with the lowest warehouse id whose
\* available stock is at least q (one RESERVE appended, only that row's reserved
\* raised); with no such row it raises and changes nothing, whatever the warehouses
\* hold together.
SingleWarehouseReserve ==
    \A sku \in LedgerSkus, q \in 1..MaxQty, ref \in LedgerRefs :
        LET r == reserve_stock(inv, txlog, sku, q, ref, ReserveTypeOf(ref), NoWarehouse)
        IN IF Sufficient(sku, q) = {}
           THEN ~r.ok /\ r.inv = inv /\ r.log = txlog
           ELSE LET it == CHOOSE x \in Sufficient(sku, q) :
                              \A o \in Sufficient(sku, q) : x[2] <= o[2]
                IN /\ r.ok
                   /\ r.inv = [inv EXCEPT ![it].reserved = @ + q]
                   /\ r.log = Append(txlog, Tx(it, "RESERVE", q, ref, ReserveTypeOf(ref)))

\* a reservation was taken from the second warehouse alone, and what is left in the two
\* warehouses together would cover a reserve of 2 that no single one can take
SingleWarehouseReserveWitness ==
    \E sku \in LedgerSkus :
        /\ \E k \in 1..Len(txlog) :
              txlog[k].type = "RESERVE" /\ txlog[k].item = <<sku, 2>> /\ txlog[k].qty = 1
        /\ inv[<<sku, 1>>].exists /\ Available(<<sku, 1>>) = 1
        /\ Available(<<sku, 2>>) = 1
        /\ Sufficient(sku, 2) = {}

(***************************************************************************)
(* Flash-sale claims                                                       *)
(***************************************************************************)
\* C23: ACTIVE only after preload.  In every reachable state an activity whose status
\* is ACTIVE has its keys loaded in the fast store by a completed preload script.
ActiveOnlyAfterPreload ==
    activity.status = "ACTIVE" => preload.keys

\* the code the claim gives for an attempt, from the stores as they are before it
FirstFailingCheck(a) ==
    IF a.sku \notin DOMAIN SkuMap THEN -1
    ELSE LET o == SkuMap[a.sku]
         IN IF a.now < OfferInfo[o].start_time THEN -2
            ELSE IF a.now > OfferInfo[o].end_time THEN -3
            ELSE IF stock[o] < a.qty THEN -4
            ELSE IF purchased[a.user][o] + a.qty > OfferInfo[o].purchase_limit THEN -5
            ELSE 1

\* C24: admission result.  An admission attempt returns the code of the first check
\* that fails, in the order -1 (SKU not in the activity), -2 (before the start), -3
\* (after the end), -4 (stock below the quantity), -5 (purchase limit); it returns
\* success, with the offer of the SKU, exactly when all of them pass.
AdmissionResult ==
    [][Len(attempts') = Len(attempts) + 1 =>
          /\ LastAttempt.code = FirstFailingCheck(LastAttempt)
          /\ LastAttempt.code = 1 =>
                job'[LastAttempt.req].offer = SkuMap[LastAttempt.sku]]_vars

\* an attempt failed two checks (stock below its quantity, and its user over the
\* limit with it) and got the code of the earlier one
AdmissionResultWitness ==
    /\ \E k \in 1..Len(attempts) : \E j \in 1..(k - 1) :
          /\ attempts[k].code = -4
          /\ attempts[j].code = 1 /\ attempts[j].user = attempts[k].user
          /\ attempts[j].qty + attempts[k].qty > purchase_limit

\* C25: admission effect.  A successful admission lowers the offer's stock counter by
\* the quantity and raises the user's purchase count for the offer by the quantity,
\* in the one step of the script, and nothing else in the two stores; an admission
\* that returns a failure code leaves the stock counter, every purchase count, the
\* request-status records and the job queue as they were.
AdmissionEffect ==
    [][Len(attempts') = Len(attempts) + 1 =>
          LET a == LastAttempt
          IN IF a.code = 1
             THEN /\ stock' = [stock EXCEPT ![SkuMap[a.sku]] = @ - a.qty]
                  /\ purchased' = [purchased EXCEPT ![a.user][SkuMap[a.sku]] = @ + a.qty]
             ELSE UNCHANGED <<stock, purchased, reqStatus, job>>]_vars

\* an admission succeeded and later attempts were refused for the stock and for the
\* limit
AdmissionEffectWitness ==
    /\ CountCode(attempts, 1) >= 1
    /\ CountCode(attempts, -4) >= 1
    /\ CountCode(attempts, -5) >= 1
    /\ stock[1] = seckill_stock - CountCode(attempts, 1)

\* the order number in the SUCCESS record of a request: that of the run that wrote it
SuccessSn(r) == SKSN(r, job[r].runs)
DurableOrder(os, log, r) ==
    /\ \E o \in os : o.sn = SuccessSn(r) /\ o.status = "PENDING_PAYMENT"
    /\ \E k \in 1..Len(log) :
          /\ log[k].type = "RESERVE" /\ log[k].ref = SuccessSn(r)
          /\ log[k].rtype = "seckill_order_creation" /\ log[k].qty = job[r].qty

OverdueEventuallyCancelled ==
    \A sn \in OrderSns :
        HasStatus(orders, sn, "PENDING_PAYMENT")
            ~> (HasStatus(orders, sn, "CANCELLED") \/ HasStatus(orders, sn, "PROCESSING"))

(***************************************************************************)
(* Adjustment and transfer                                                 *)
(***************************************************************************)
\* the values of the body of StockAdjust (schemas/inventory.py): new_quantity >= 0
NewQuantities == 0..MaxQty

\* C28: adjust.  In every state the ledger reaches, adjust(sku, warehouse, newQuantity)
\* sets that StockItem's quantity to exactly newQuantity, leaves its reserved and every
\* other StockItem unchanged, appends one ADJUST transaction whose quantity is
\* newQuantity minus the previous quantity (0 for a row created by the call), and
\* publishes one low-stock alert exactly when newQuantity <= alert_threshold.
AdjustContract ==
    \A sku \in LedgerSkus, wh \in Warehouses, n \in NewQuantities :
        LET it == <<sku, wh>>
            res == adjust_stock(inv, txlog, sku, wh, n)
        IN /\ res.ok
           /\ res.inv[it].exists
           /\ res.inv[it].quantity = n
           /\ res.inv[it].reserved = inv[it].reserved
           /\ \A other \in Items \ {it} : res.inv[other] = inv[other]
           /\ res.log = Append(txlog, Tx(it, "ADJUST", n - inv[it].quantity, NoRef,
                                         "inventory_adjustment"))
           /\ IF n <= alert_threshold
              THEN /\ Len(res.alerts) = 1
                   /\ res.alerts[1].item = it
                   /\ res.alerts[1].quantity = n
              ELSE res.alerts = <<>>

\* an adjustment has lowered a StockItem: its ADJUST transaction is negative, the row
\* holds the new quantity and the last alert published is about that row and quantity
AdjustContractWitness ==
    /\ txlog # <<>>
    /\ alerts # <<>>
    /\ LET t == txlog[Len(txlog)]
           a == alerts[Len(alerts)]
       IN /\ t.type = "ADJUST"
          /\ t.qty < 0
          /\ a.item = t.item
          /\ a.quantity = inv[t.item].quantity
          /\ a.quantity <= alert_threshold

\* the quantity of a SKU over all warehouses
RECURSIVE SumQuantity(_, _)
SumQuantity(rows, S) ==
    IF S = {} THEN 0
    ELSE LET it == CHOOSE x \in S : TRUE
         IN rows[it].quantity + SumQuantity(rows, S \ {it})

TotalQuantity(rows, sku) == SumQuantity(rows, {it \in Items : it[1] = sku})

\* the quantities of the body of StockTransferRequest (schemas/inventory.py): gt 0
TransferQuantities == 1..MaxQty

\* what transfer_stock does to the ledger, for every SKU, pair of warehouses and quantity
TransferMoves ==
    \A sku \in Skus, f \in Warehouses, t \in Warehouses, q \in TransferQuantities :
        LET from == <<sku, f>>
            to == <<sku, t>>
            res == transfer_stock(inv, txlog, sku, f, t, q)
        IN IF inv[from].exists /\ inv[from].quantity - inv[from].reserved >= q
           THEN /\ res.ok
                /\ res.inv[to].exists
                /\ f # t => /\ res.inv[from].quantity = inv[from].quantity - q
                            /\ res.inv[to].quantity = inv[to].quantity + q
                /\ res.inv[from].reserved = inv[from].reserved
                /\ res.inv[to].reserved = inv[to].reserved
                /\ \A other \in Items \ {from, to} : res.inv[other] = inv[other]
                /\ TotalQuantity(res.inv, sku) = TotalQuantity(inv, sku)
                /\ res.log = txlog \o
                       <<Tx(from, "TRANSFER_OUT", q, NoRef, "inventory_transfer"),
                         Tx(to, "TRANSFER_IN", q, NoRef, "inventory_transfer")>>
           ELSE /\ ~res.ok
                /\ res.inv = inv
                /\ res.log = txlog

\* the step in which a transfer that holds the lock runs and ends: the key no longer
\* holds the transfer's token, and the step changes the ledger only as a transfer does
TransferEnds ==
    \A sku \in Skus :
        (xfer[sku] = "held" /\ xfer'[sku] = "idle") =>
            /\ lockKey'[sku] # Token("xfer", 0, sku)
            /\ \/ UNCHANGED ledgerVars
               \/ /\ TotalQuantity(inv', sku) = TotalQuantity(inv, sku)
                  /\ Len(txlog') = Len(txlog) + 2
                  /\ txlog'[Len(txlog') - 1].type = "TRANSFER_OUT"
                  /\ txlog'[Len(txlog')].type = "TRANSFER_IN"

\* C29: transfer conserves stock.  A transfer of qty of a SKU from warehouse A to
\* warehouse B, when A's available stock (quantity - reserved) is at least qty, lowers
\* A's quantity by qty and raises B's by qty (B's row is created at 0 first when
\* missing), leaves the SKU's total quantity over all warehouses unchanged and appends
\* one TRANSFER_OUT and one TRANSFER_IN of qty; otherwise it raises
\* InsufficientStockException and changes no StockItem; either way the per-SKU lock
\* is released when the transfer ends.
TransferConserves ==
    []TransferMoves /\ [][TransferEnds]_vars

\* a transfer has moved one unit from warehouse 1 into a row it created for warehouse
\* 2, and has released the lock
TransferConservesWitness ==
    /\ Len(txlog) >= 2
    /\ txlog[Len(txlog) - 1] = Tx(<<1, 1>>, "TRANSFER_OUT", 1, NoRef, "inventory_transfer")
    /\ txlog[Len(txlog)] = Tx(<<1, 2>>, "TRANSFER_IN", 1, NoRef, "inventory_transfer")
    /\ inv[<<1, 2>>] = [exists |-> TRUE, quantity |-> 1, reserved |-> 0]
    /\ inv[<<1, 1>>].quantity = seckill_stock
    /\ xfer[1] = "idle"
    /\ lockKey[1] = NoToken

(***************************************************************************)
(* Promotion selector                                                      *)
(***************************************************************************)
\* the candidates of a selection: the active promotions whose scope matches a line
Candidates(sel) ==
    {id \in active_promotions(sel.rows, sel.now) :
        applicable_items(sel.rows[id], sel.items) # <<>>}

\* the discount a candidate yields by the selector's contract: its condition (no
\* threshold, minimum amount, minimum quantity) evaluated on its applicable lines, its
\* action (fixed amount, percentage, buy N get M free per line), clamped to the total
\* of its applicable lines
CandidateDiscount(promo, items) ==
    LET satisfied == promo.condition_type = "NO_THRESHOLD" \/ condition_met(promo, items)
        d == IF ~satisfied THEN 0
             ELSE IF promo.action_type = "FIXED" THEN promo.action_value * percent_base
             ELSE IF promo.action_type = "PERCENTAGE"
             THEN promo_base_amount(items) * promo.action_value
             ELSE total_item_discount(promo, items)
    IN Min(d, promo_base_amount(items) * percent_base)

\* C30: best promotion.  Among the active promotions whose scope matches at least one
\* line, the selector returns the one whose discount, clamped to the total of its
\* applicable lines, is largest, the one with the highest id when several share the
\* largest discount, and none when every candidate's discount is 0.
BestPromotion ==
    LET c == Candidates(selected)
        d(id) == CandidateDiscount(selected.rows[id],
                                   applicable_items(selected.rows[id], selected.items))
    IN selected # NoSelection =>
          IF \A id \in c : d(id) = 0
          THEN selected.promo = NoPromotion
          ELSE /\ selected.promo \in c
               /\ \A o \in c : /\ d(o) <= d(selected.promo)
                               /\ d(o) = d(selected.promo) => o <= selected.promo

\* C31: no-threshold promotions apply.  For every promotion in the table that is FIXED
\* or PERCENTAGE with condition NO_THRESHOLD, and every cart with at least one line in
\* its scope, the selector's discount for it is its action's amount (the fixed amount,
\* or the percentage of the applicable lines' total) clamped to that total, as for a
\* MIN_AMOUNT or MIN_QUANTITY promotion whose threshold is met.
NoThresholdApplies ==
    \A id \in DOMAIN promotions, c \in PromoCarts :
        LET promo == promotions[id]
            items == applicable_items(promo, c)
            amount == IF promo.action_type = "FIXED"
                      THEN promo.action_value * percent_base
                      ELSE promo_base_amount(items) * promo.action_value
        IN (/\ promo.condition_type = "NO_THRESHOLD"
            /\ promo.action_type \in {"FIXED", "PERCENTAGE"}
            /\ items # <<>>)
           => current_discount(promo, items) =
                  Min(amount, promo_base_amount(items) * percent_base)

\* C32: status ordering at admission.  The PROCESSING record of a request is written
\* before its job is in the queue, so every job that exists has its record, and a
\* SUCCESS or FAILED record of the Materializer is never replaced by PROCESSING.
ProcessingBeforeEnqueue ==
    [][\A r \in ReqIds :
          /\ job'[r].pc # "none" => reqStatus'[r] # "NONE"
          /\ reqStatus[r] \in {"SUCCESS", "FAILED"} => reqStatus'[r] # "PROCESSING"]_vars

\* the handler of an admitted request has returned and the Materializer has written
\* the final record of the request
ProcessingBeforeEnqueueWitness ==
    \E k \in 1..Len(attempts) :
        /\ attempts[k].code = 1
        /\ attempts[k].at = Len(admit_steps) + 1
        /\ reqStatus[attempts[k].req] \in {"SUCCESS", "FAILED"}
        /\ job[attempts[k].req].runs >= 1

(***************************************************************************)
(* Cart                                                                    *)
(***************************************************************************)
\* C33: checkout removes only what it ordered.  In the step in which a whole-cart
\* checkout commits its order, the lines it loaded, reserved and put on the order leave
\* the cart and every line of another SKU (one the same user added after the checkout
\* loaded the cart) is still there.
CheckoutRemovesOrdered ==
    [][\A p \in Procs :
          (ck[p].pc = "txn" /\ ck'[p].result = "order") =>
              cart'[p] = SelectSeq(cart[p],
                            LAMBDA l : ~\E i \in 1..Len(ck[p].items) :
                                            ck[p].items[i].sku = l.sku)]_vars

(***************************************************************************)
(* Materializer retries                                                    *)
(***************************************************************************)
\* C34: purchase count never negative.  For every user and offer the purchase count
\* in the fast store is >= 0 in every state reachable by admissions, compensations and
\* job retries.
PurchaseCountNonNegative ==
    \A u \in Users, o \in Offers : purchased[u][o] >= 0

\* the orders the runs of the job of request r created
OrdersOfRequest(r) == {o \in orders : o.sn[1] = "SKSN" /\ o.sn[2] = r}

\* C35: at most one order per admission.  Each admitted request has at most one Order,
\* whichever runs of its job fail or succeed, a run that commits the order and then
\* fails to write the SUCCESS record included.
OneOrderPerAdmission ==
    \A r \in ReqIds : Cardinality(OrdersOfRequest(r)) <= 1

(***************************************************************************)
(* Reserved stock and order status: checkout, the materializer, user        *)
(* cancellations and payment notifications on one ledger                    *)
(***************************************************************************)
\* the order numbers a handler can be asked about: the checkouts' and the
\* materializer's (one per run of the task)
FulfilmentSns == {SN(1)} \cup {SKSN(r, n) : r \in SaleRequests, n \in 1..(max_retries + 1)}

\* as InitShared, with the first user's cart holding one unit of the offer's SKU
InitFulfilment ==
    /\ inv = [it \in Items |->
                IF it = <<1, 1>>
                THEN [exists |-> TRUE, quantity |-> seckill_stock + 1, reserved |-> 0]
                ELSE NoItem]
    /\ txlog = <<Tx(<<1, 1>>, "STOCK_IN", seckill_stock + 1, NoRef, "purchase")>>
    /\ alerts = <<>>
    /\ lockKey = [s \in Skus |-> NoToken]
    /\ lapsed = {}
    /\ xfer = [s \in Skus |-> "idle"]
    /\ ck = [p \in Procs |-> IdleCheckout]
    /\ orders = {}
    /\ cart = [p \in Procs |-> IF p = 1 THEN <<Line(1, 1)>> ELSE <<>>]
    /\ resp = NoResp
    /\ stock = [o \in Offers |-> seckill_stock]
    /\ purchased = [u \in Users |-> [o \in Offers |-> 0]]
    /\ attempts = <<>>
    /\ job = [r \in ReqIds |-> NoJob]
    /\ reqStatus = [r \in ReqIds |-> "NONE"]
    /\ activity = 0 /\ preload = 0 /\ clock = 0
    /\ promotions = 0 /\ selected = 0 /\ adjusting = 0

FulfilmentNext ==
    \/ CkStart(1)
    \/ CkTryAcquire(1)
    \/ CkTxn(1)
    \/ CkRelease(1)
    \/ Admit(1, OfferInfo[1].sku_id, 1, InWindow, Cardinality(SaleRequests))
    \/ \E r \in SaleRequests : JobTryAcquire(r)
    \/ \E r \in SaleRequests, found \in BOOLEAN : JobLoad(r, found)
    \/ \E r \in SaleRequests, fault \in BOOLEAN : JobTxn(r, fault)
    \/ \E r \in SaleRequests, ok \in BOOLEAN : JobStatus(r, ok)
    \/ \E r \in SaleRequests : JobCompensate(r)
    \/ \E r \in SaleRequests : JobFinally(r)
    \/ \E sn \in FulfilmentSns : Cancel(sn, 1)
    \* the amounts notified, in cents: the checkout's total and the seckill total
    \/ \E sn \in FulfilmentSns, cents \in {total_amount(<<Line(1, 1)>>), SeckillPrice[1]} :
          PayNotify(sn, cents)

SpecFulfilment == InitFulfilment /\ [][FulfilmentNext]_vars

\* no checkout is between its first lock request and its last release, and no run
\* of the materializer's task is under way
NothingInFlight ==
    /\ \A p \in Procs : ck[p].pc \in {"idle", "done"}
    /\ \A r \in ReqIds : job[r].pc \in {"none", "done", "dead"}

\* C36: reserved stock follows order status.  Whenever no checkout and no
\* materialization is in flight, each StockItem's reserved equals the summed
\* RESERVE quantities of the orders still in PENDING_PAYMENT that reserved from it,
\* so an order that is PROCESSING or CANCELLED holds no reserved stock, whether
\* checkout or the materializer created it.
ReservedFollowsStatus ==
    NothingInFlight => \A it \in Items : inv[it].reserved = PendingReserved(it)

(***************************************************************************)
(* A cancellation racing a payment notification                            *)
(***************************************************************************)
LogOf(sn, type) == SelectSeq(txlog, LAMBDA t : t.type = type /\ t.ref = sn)
\* the request is a cancellation by the order's owner, or a notification of the
\* order's pay_amount (an amount whose float is the decimal)
ValidRequest(sn) ==
    \/ HandlerStep("cancel", sn) /\ resp'.note # "not_found"
    \/ /\ HandlerStep("pay", sn) /\ float_of(resp'.n).exact
       /\ \E o \in orders : o.sn = sn /\ o.pay_amount = resp'.n

QuantityMatchesLog ==
    \A it \in Items :
        inv[it].quantity
            = TypeSum(it, "STOCK_IN") + TypeSum(it, "TRANSFER_IN") + TypeSum(it, "ADJUST")
              - TypeSum(it, "STOCK_OUT") - TypeSum(it, "TRANSFER_OUT")

(***************************************************************************)
(* Preload after admissions                                                *)
(***************************************************************************)
\* C39: preload never undoes admissions.  Once an admission against an offer of the
\* activity has succeeded, no later run of the preload script changes that offer's
\* stock counter: not with two preloads running, not after the preload lock expired,
\* not after the commit of the ACTIVE status failed.
PreloadKeepsAdmissions ==
    [][\A p \in Loaders :
          (/\ preload.pc[p] = "script" /\ preload'.pc[p] = "commit"
           /\ \E k \in Admitted : attempts[k].sku = OfferInfo[1].sku_id)
          => stock' = stock]_vars

====
